---- MODULE Spec2Model ----
(***************************************************************************)
(* Model of kasfam-handsfree: the judge client (gptClient.ts,               *)
(* openaiRetry.ts), the decision store (tweetStore.ts), the batch loop      *)
(* (index.ts) and the review server (server.ts).                            *)
(*                                                                          *)
(* Texts are sequences of tokens: a judge output is a sequence over         *)
(* OutTokens, where "Approved" and "Rejected" are the two literal markers,  *)
(* "approved" is any other word, "WS" is white space, "Percentile:" and     *)
(* "percentile:" are the field name in two spellings and "D0","D1","D5"     *)
(* are decimal digits.                                                      *)
(***************************************************************************)
EXTENDS Integers, Sequences, FiniteSets, TLC

VARIABLES
  call,     \* the logical call through withRetry of SpecParse and SpecRetry
  tweets,   \* the tweets table: id -> row, or NoRow
  config,   \* the config side table
  now,      \* datetime('now')
  batch,    \* the batch run (index.ts main)
  req,      \* the process or re-evaluate request in flight (server.ts)
  respSeq,  \* the id of the oracle's latest response
  last,     \* what the latest step wrote to the tweets table: operation, id, the row before
  events,   \* the number of events around the batch so far: a review request that
            \* wrote, a process or re-evaluate request that reached the judge, a clock tick
  query,    \* the latest query of the store: its arguments and what it returned
  db,       \* the schema of the database and its ledger of migrations
  migration, \* the migrations directory and the runs of applyMigrations so far
  tally     \* SpecRun's count of the batch run under way: the oracle calls made, the
            \* places in tweetsToProcess of the tweets judged and skipped

sysVars == <<tweets, config, now, batch, req, respSeq, last, events, query, db, migration, tally>>

vars == <<call, tweets, config, now, batch, req, respSeq, last, events, query, db, migration, tally>>

Null == "null"

\* The absent value of a number.
NullInt == 0 - 1

(***************************************************************************)
(* Bounds of the model.                                                     *)
(***************************************************************************)
MaxOutLen == 5

MaxRuns == 2

MaxResponses == 2

MaxEvents == 2

\* The largest table of the query specifications.
MaxRows == 101

\* The largest number of gold examples of one type in a queried table.
MaxGold == 6

\* The largest count of posts given to computeFrequencyState.
MaxPosts == 4

\* The largest number of runs of applyMigrations on one database.
MaxApplies == 3

(***************************************************************************)
(* Judge output texts.                                                      *)
(***************************************************************************)
Digits == {"D0", "D1", "D5"}

OutTokens == {"Approved", "Rejected", "approved", "WS", "Percentile:", "percentile:"} \cup Digits

Outputs == UNION {[1..n -> OutTokens] : n \in 0..MaxOutLen}

\* A response without output_text.
NoText == <<"undefined">>

DigitValue(d) == CASE d = "D0" -> 0 [] d = "D1" -> 1 [] d = "D5" -> 5

\* String.prototype.trim: white space removed at both ends.
RECURSIVE trimStart(_)
trimStart(s) == IF s # <<>> /\ Head(s) = "WS" THEN trimStart(Tail(s)) ELSE s

RECURSIVE trimEnd(_)
trimEnd(s) == IF s # <<>> /\ s[Len(s)] = "WS" THEN trimEnd(SubSeq(s, 1, Len(s) - 1)) ELSE s

trim(s) == trimEnd(trimStart(s))

\* A prefix test that ignores the case of the marker.
startsWith_IgnoreCase(s, marker) ==
  s # <<>> /\ (Head(s) = marker \/ (marker = "Approved" /\ Head(s) = "approved"))

startsWith(s, marker) == s # <<>> /\ Head(s) = marker

\* The position after the white space that starts at position i (\s*).
RECURSIVE skipSpace(_, _)
skipSpace(s, i) == IF i <= Len(s) /\ s[i] = "WS" THEN skipSpace(s, i + 1) ELSE i

\* The end of the longest run of digits that starts at position i (\d+), i - 1 if none.
RECURSIVE digitsEnd(_, _)
digitsEnd(s, i) == IF i <= Len(s) /\ s[i] \in Digits THEN digitsEnd(s, i + 1) ELSE i - 1

\* parseInt(text, 10) of a run of decimal digits.
RECURSIVE parseInt(_)
parseInt(ds) == IF ds = <<>> THEN 0 ELSE 10 * parseInt(SubSeq(ds, 1, Len(ds) - 1)) + DigitValue(ds[Len(ds)])

\* Whether /Percentile:\s*(\d+)/i matches at position i.
percentileAt(s, i) ==
  /\ s[i] \in {"Percentile:", "percentile:"}
  /\ digitsEnd(s, skipSpace(s, i + 1)) >= skipSpace(s, i + 1)

\* quote.match(/Percentile:\s*(\d+)/i): the captured digits of the leftmost match, <<>> if none.
percentileMatch(s) ==
  IF \E i \in 1..Len(s) : percentileAt(s, i)
  THEN LET i == CHOOSE k \in 1..Len(s) : percentileAt(s, k) /\ \A j \in 1..(k - 1) : ~percentileAt(s, j)
           b == skipSpace(s, i + 1)
       IN SubSeq(s, b, digitsEnd(s, b))
  ELSE <<>>

\* The range test without its upper bound.
scoreInRange_NoUpperBound(score) == ~(score < 0)

scoreInRange(score) == ~(score < 0 \/ score > 100)

Malformed(quote) == [kind |-> "MalformedResponseError", rawResponse |-> quote]

\* askTweetDecision that parses the percentile of a rejection as well.
parseDecision_ScoresRejected(outputText, responseId) ==
  LET quote == IF outputText = NoText THEN <<>> ELSE trim(outputText)
      isApproved == quote # <<>> /\ Head(quote) = "Approved"
      isRejected == quote # <<>> /\ Head(quote) = "Rejected"
  IN IF quote = <<>> THEN Malformed(quote)
     ELSE IF ~isApproved /\ ~isRejected THEN Malformed(quote)
     ELSE IF percentileMatch(quote) = <<>>
          THEN IF isApproved THEN Malformed(quote)
               ELSE [kind |-> "result", quote |-> quote, approved |-> FALSE, score |-> 0,
                     responseId |-> responseId]
          ELSE IF parseInt(percentileMatch(quote)) > 100 THEN Malformed(quote)
               ELSE [kind |-> "result", quote |-> quote, approved |-> isApproved,
                     score |-> parseInt(percentileMatch(quote)), responseId |-> responseId]

\* askTweetDecision from the oracle's output text on: trim, validate, parse.
\* response.output_text?.trim() ?? "": an absent text is the empty text.
parseDecision(outputText, responseId) ==
  LET quote == IF outputText = NoText THEN <<>> ELSE trim(outputText)
      isApproved == startsWith(quote, "Approved")
      isRejected == startsWith(quote, "Rejected")
  IN IF quote = <<>> THEN Malformed(quote)
     ELSE IF ~isApproved /\ ~isRejected THEN Malformed(quote)
     ELSE IF isApproved
          THEN IF percentileMatch(quote) = <<>> THEN Malformed(quote)
               ELSE IF ~scoreInRange(parseInt(percentileMatch(quote))) THEN Malformed(quote)
               ELSE [kind |-> "result", quote |-> quote, approved |-> TRUE,
                     score |-> parseInt(percentileMatch(quote)), responseId |-> responseId]
          ELSE [kind |-> "result", quote |-> quote, approved |-> FALSE, score |-> 0,
                responseId |-> responseId]

\* quickFilterTweet from the oracle's output text on.
parseQuickFilter(outputText) ==
  LET output == IF outputText = NoText THEN <<>> ELSE trim(outputText)
      isApproved == startsWith(output, "Approved")
      isRejected == startsWith(output, "Rejected")
  IN IF output = <<>> THEN Malformed(output)
     ELSE IF ~isApproved /\ ~isRejected THEN Malformed(output)
     ELSE [kind |-> "filter", approved |-> isApproved]

(***************************************************************************)
(* Errors of the oracle call. An OpenAI.APIError carries a status, a code,  *)
(* a type and a message; the message is the set of the phrases it holds     *)
(* and the "try again in Ns" hint, in tenths of a second (NullInt: none).   *)
(* Any other exception (a network failure) is OtherError.                   *)
(***************************************************************************)
ErrorCodes == {"", "insufficient_quota", "billing_hard_limit_reached", "rate_limit_exceeded"}

MessagePhrases == {"insufficient_quota", "billing", "hard limit"}

RetryHints == {NullInt, 0, 15}

OtherError == [api |-> FALSE]

NoError == [none |-> TRUE]

NoOutcome == [kind |-> "none"]

ApiErrors == [api : {TRUE}, status : {429, 500}, code : ErrorCodes, type : ErrorCodes,
              message : SUBSET MessagePhrases, hint : RetryHints]

Errors == ApiErrors \cup {OtherError}

\* One attempt more than the source allows.
MAX_RETRIES_OneMore == 3 + 1

MAX_RETRIES == 3

BASE_DELAY_MS == 3000

GPT_MAX_RETRIES == 3

GPT_BASE_DELAY_MS == 3000

\* openaiRetry.ts
isRateLimitError(error) == error.api /\ error.status = 429

isQuotaOrBillingError(error) ==
  IF ~error.api THEN FALSE
  ELSE \/ error.code = "insufficient_quota"
       \/ error.code = "billing_hard_limit_reached"
       \/ error.type = "insufficient_quota"
       \/ error.type = "billing_hard_limit_reached"
       \/ "insufficient_quota" \in error.message
       \/ "billing" \in error.message
       \/ "hard limit" \in error.message

max(a, b) == IF a >= b THEN a ELSE b

extractRetryDelayMs(error) ==
  IF error.api /\ error.hint # NullInt THEN max(0, error.hint * 100) ELSE BASE_DELAY_MS

\* The catch block without the test for quota and billing errors.
withRetryCatch_NoQuotaCheck(attempt, error) ==
  IF ~(error.api /\ error.status = 429) THEN "throw"
  ELSE IF attempt = 3 THEN "break"
  ELSE "delay"

\* The catch block that gives up one attempt early.
withRetryCatch_GivesUpEarly(attempt, error) ==
  IF ~(error.api /\ error.status = 429) THEN "throw"
  ELSE IF isQuotaOrBillingError(error) THEN "throw"
  ELSE IF attempt >= 2 THEN "break"
  ELSE "delay"

\* The catch block that waits after the last attempt as well.
withRetryCatch_DelaysAfterLast(attempt, error) ==
  IF ~(error.api /\ error.status = 429) THEN "throw"
  ELSE IF isQuotaOrBillingError(error) THEN "throw"
  ELSE "delay"

\* The catch block of withRetry (openaiRetry.ts) for the error of attempt `attempt`.
withRetryCatch(attempt, error) ==
  IF ~isRateLimitError(error) THEN "throw"
  ELSE IF isQuotaOrBillingError(error) THEN "throw"
  ELSE IF attempt = MAX_RETRIES THEN "break"
  ELSE "delay"

withRetryLoop(attempt) == attempt <= MAX_RETRIES

\* gptClient.ts
gptIsRateLimitError(error) == IF error.api /\ error.status = 429 THEN TRUE ELSE FALSE

gptExtractRetryDelay(error) ==
  IF error.api /\ error.hint # NullInt THEN error.hint * 100 ELSE GPT_BASE_DELAY_MS

\* The catch block of gptClient.ts's own withRetry.
gptWithRetryCatch(attempt, error) ==
  IF ~gptIsRateLimitError(error) THEN "throw"
  ELSE IF attempt = GPT_MAX_RETRIES THEN "break"
  ELSE "delay"

gptWithRetryLoop(attempt) == attempt <= GPT_MAX_RETRIES

(***************************************************************************)
(* One logical call through withRetry. fn is "withRetry" (openaiRetry.ts,   *)
(* the operation's value returned as it is), "askTweetDecision" or          *)
(* "quickFilterTweet" (gptClient.ts, through its own withRetry). calls and  *)
(* delays count the invocations of the operation and the backoff delays.    *)
(***************************************************************************)
CallFns == {"withRetry", "askTweetDecision", "quickFilterTweet"}

IdleCall == [fn |-> Null, pc |-> "idle", attempt |-> 0, calls |-> 0, delays |-> 0,
             delayMs |-> 0, lastError |-> NoError, response |-> NoText, outcome |-> NoOutcome]

callStart(fn) == [IdleCall EXCEPT !.fn = fn, !.pc = "attempt", !.attempt = 1]

catchOf(c, error) ==
  IF c.fn = "withRetry" THEN withRetryCatch(c.attempt, error) ELSE gptWithRetryCatch(c.attempt, error)

delayOf(c, error) ==
  IF c.fn = "withRetry" THEN extractRetryDelayMs(error) ELSE gptExtractRetryDelay(error)

loopOf(c, attempt) ==
  IF c.fn = "withRetry" THEN withRetryLoop(attempt) ELSE gptWithRetryLoop(attempt)

Thrown(error) == [kind |-> "thrown", error |-> error]

\* await operation() throws `error`.
callThrows(c, error) ==
  LET d == catchOf(c, error)
      c1 == [c EXCEPT !.calls = @ + 1, !.lastError = error]
  IN IF d = "delay"
     THEN [c1 EXCEPT !.pc = "backoff", !.delays = @ + 1, !.delayMs = delayOf(c, error)]
     ELSE [c1 EXCEPT !.pc = "done", !.outcome = Thrown(error)]

\* The backoff timer fires: attempt++ and the loop test; past the loop, throw lastError.
callResumes(c) ==
  IF loopOf(c, c.attempt + 1)
  THEN [c EXCEPT !.pc = "attempt", !.attempt = @ + 1]
  ELSE [c EXCEPT !.pc = "done", !.attempt = @ + 1, !.outcome = Thrown(c.lastError)]

\* await operation() throws `error` and the backoff delay, if there is one, elapses.
callFails(c, error) ==
  LET c1 == callThrows(c, error)
  IN IF c1.pc = "backoff" THEN callResumes(c1) ELSE c1

\* A return whose format error sends the call back to the oracle.
callReturns_RetriesMalformed(c, outputText, responseId) ==
  LET parsed == CASE c.fn = "askTweetDecision" -> parseDecision(outputText, responseId)
                  [] c.fn = "quickFilterTweet" -> parseQuickFilter(outputText)
                  [] OTHER -> [kind |-> "returned", output_text |-> outputText, id |-> responseId]
  IN IF parsed.kind = "MalformedResponseError" /\ c.attempt < 3
     THEN [c EXCEPT !.calls = @ + 1, !.attempt = @ + 1, !.response = outputText, !.outcome = parsed]
     ELSE [c EXCEPT !.calls = @ + 1, !.pc = "done", !.response = outputText, !.outcome = parsed]

\* await operation() returns a response {output_text, id}.
callReturns(c, outputText, responseId) ==
  [c EXCEPT !.calls = @ + 1, !.pc = "done", !.response = outputText,
            !.outcome = CASE c.fn = "askTweetDecision" -> parseDecision(outputText, responseId)
                          [] c.fn = "quickFilterTweet" -> parseQuickFilter(outputText)
                          [] OTHER -> [kind |-> "returned", output_text |-> outputText, id |-> responseId]]

(***************************************************************************)
(* The decision store (tweetStore.ts over the tweets table of               *)
(* migrations/001_create_tweets_table.sql). A row holds the columns of the  *)
(* table; approved is 1, 0 or NullInt, updatedAt a time or NullInt.         *)
(***************************************************************************)
Ids == {"t1", "t2"}

\* A url is <<host, user, "status">> ("https://x.com/<user>/status/...") or another link.
OtherUrl == <<"kaspa.news", "p">>

NoRow == [absent |-> TRUE]

\* url.match(/x\.com\/([^/]+)\/status/)?.[1] ?? null
extractAuthorFromUrl(url) ==
  IF Len(url) >= 3 /\ url[1] = "x.com" /\ url[3] = "status" THEN url[2] ELSE Null

\* The column defaults of a new row.
newRow(text, url, t) ==
  [text |-> text, quote |-> <<>>, url |-> url, approved |-> NullInt, score |-> 0,
   createdAt |-> t, updatedAt |-> NullInt, humanDecision |-> Null,
   goldExampleType |-> Null, goldExampleCorrection |-> Null, authorUsername |-> Null]

coalesce(a, b) == IF a # Null THEN a ELSE b

\* INSERT OR REPLACE in place of the upsert: the row is written anew.
insertRaw_Replace(tw, id, text, url, authorUsername, t) ==
  [tw EXCEPT ![id] = [newRow(text, url, t) EXCEPT !.authorUsername = authorUsername]]

\* The upsert whose update leaves the text of a judged row alone.
insertRaw_KeepsJudgedText(tw, id, text, url, authorUsername, t) ==
  IF tw[id] = NoRow
  THEN [tw EXCEPT ![id] = [newRow(text, url, t) EXCEPT !.authorUsername = authorUsername]]
  ELSE [tw EXCEPT ![id] = [@ EXCEPT !.text = IF tw[id].approved = NullInt THEN text ELSE @,
                                    !.url = url,
                                    !.authorUsername = coalesce(authorUsername, @)]]

\* INSERT INTO tweets (id, text, url, authorUsername) ... ON CONFLICT(id) DO UPDATE
insertRaw(tw, id, text, url, authorUsername, t) ==
  IF tw[id] = NoRow
  THEN [tw EXCEPT ![id] = [newRow(text, url, t) EXCEPT !.authorUsername = authorUsername]]
  ELSE [tw EXCEPT ![id] = [@ EXCEPT !.text = text, !.url = url,
                                    !.authorUsername = coalesce(authorUsername, @)]]

\* saveRaw as an UPDATE of the rows there are: an unknown tweet gets no row.
saveRaw_UpdateOnly(tw, tweet, t) ==
  IF tw[tweet.id] = NoRow THEN tw
  ELSE insertRaw(tw, tweet.id, tweet.text, tweet.url,
                 coalesce(tweet.authorUsername, extractAuthorFromUrl(tweet.url)), t)

saveRaw(tw, tweet, t) ==
  insertRaw(tw, tweet.id, tweet.text, tweet.url,
            coalesce(tweet.authorUsername, extractAuthorFromUrl(tweet.url)), t)

\* INSERT OR REPLACE in place of the upsert: the row is written anew.
upsertWithDecision_Replace(tw, d, t) ==
  [tw EXCEPT ![d.id] = [newRow(d.text, d.url, t) EXCEPT !.quote = d.quote,
                           !.approved = d.approved, !.score = d.score, !.updatedAt = t]]

\* save that leaves the approved column out of what it writes.
save_KeepsApproved(tw, decision, t) ==
  IF tw[decision.id] = NoRow
  THEN [tw EXCEPT ![decision.id] = [newRow(decision.text, decision.url, t) EXCEPT
                                      !.quote = decision.quote, !.score = decision.score, !.updatedAt = t]]
  ELSE [tw EXCEPT ![decision.id] = [@ EXCEPT !.text = decision.text, !.quote = decision.quote,
                                             !.url = decision.url, !.score = decision.score,
                                             !.updatedAt = t]]

\* The upsert whose update resets the human decision.
upsertWithDecision_ResetsHuman(tw, d, t) ==
  IF tw[d.id] = NoRow
  THEN [tw EXCEPT ![d.id] = [newRow(d.text, d.url, t) EXCEPT !.quote = d.quote,
                                !.approved = d.approved, !.score = d.score, !.updatedAt = t]]
  ELSE [tw EXCEPT ![d.id] = [@ EXCEPT !.text = d.text, !.quote = d.quote, !.url = d.url,
                                      !.approved = d.approved, !.score = d.score, !.updatedAt = t,
                                      !.humanDecision = Null]]

\* INSERT INTO tweets (id, text, quote, url, approved, score, updatedAt) ... ON CONFLICT(id) DO UPDATE
upsertWithDecision(tw, d, t) ==
  IF tw[d.id] = NoRow
  THEN [tw EXCEPT ![d.id] = [newRow(d.text, d.url, t) EXCEPT !.quote = d.quote,
                                !.approved = d.approved, !.score = d.score, !.updatedAt = t]]
  ELSE [tw EXCEPT ![d.id] = [@ EXCEPT !.text = d.text, !.quote = d.quote, !.url = d.url,
                                      !.approved = d.approved, !.score = d.score, !.updatedAt = t]]

\* save: approved: decision.approved ? 1 : 0
save(tw, decision, t) ==
  upsertWithDecision(tw, [decision EXCEPT !.approved = IF decision.approved THEN 1 ELSE 0], t)

\* get: the row with approved as a boolean or null; NoRow when there is none.
get(tw, id) == tw[id]

approvedOf(row) == IF row.approved = NullInt THEN Null ELSE IF row.approved # 0 THEN "true" ELSE "false"

has(tw, id) == tw[id] # NoRow

hasModelDecision(tw, id) == tw[id] # NoRow /\ tw[id].approved # NullInt

\* updateHumanDecision as an upsert: an unknown id gets a row.
updateHumanDecision_Upserts(tw, id, decision, t) ==
  IF tw[id] = NoRow
  THEN [tw EXCEPT ![id] = [newRow("", <<>>, t) EXCEPT !.humanDecision = decision, !.updatedAt = t]]
  ELSE [tw EXCEPT ![id] = [@ EXCEPT !.humanDecision = decision, !.updatedAt = t]]

\* UPDATE tweets SET humanDecision = @decision, updatedAt = datetime('now') WHERE id = @id
updateHumanDecision(tw, id, decision, t) ==
  IF tw[id] = NoRow THEN tw
  ELSE [tw EXCEPT ![id] = [@ EXCEPT !.humanDecision = decision, !.updatedAt = t]]

\* UPDATE tweets SET goldExampleType, goldExampleCorrection, updatedAt WHERE id = @id
setGoldExample(tw, id, type, correction, t) ==
  IF tw[id] = NoRow THEN tw
  ELSE [tw EXCEPT ![id] = [@ EXCEPT !.goldExampleType = type,
                                    !.goldExampleCorrection = correction, !.updatedAt = t]]

\* getGoldExamples(): the rows with a gold example type, as a set of ids.
getGoldExamples(tw) == {id \in Ids : tw[id] # NoRow /\ tw[id].goldExampleType # Null}

\* loadFewShotExamples that loads the GOOD examples only.
loadFewShotExamples_GoodOnly(tw) ==
  { [tweetText |-> tw[id].text, response |-> tw[id].quote,
     correction |-> tw[id].goldExampleCorrection, type |-> tw[id].goldExampleType] :
    id \in {g \in getGoldExamples(tw) : tw[g].goldExampleType = "GOOD"} }

\* loadFewShotExamples: each gold row as {tweetText, response, correction, type}.
loadFewShotExamples(tw) ==
  { [tweetText |-> tw[id].text, response |-> tw[id].quote,
     correction |-> tw[id].goldExampleCorrection, type |-> tw[id].goldExampleType] :
    id \in getGoldExamples(tw) }

(***************************************************************************)
(* The migrations of the schema. A file name is the sequence of its parts: *)
(* the numeric prefix, the name, the extension. The database is the        *)
(* tweets table's columns (with what applyMigrations reads of them: NOT    *)
(* NULL of approved, the default of quote), the indexes, and the ledger    *)
(* schema_migrations. Of the rows of the table the database keeps the      *)
(* columns in which they hold the values that were stored in them; a       *)
(* column that is added, or that is not copied when the table is made      *)
(* anew, holds its default.                                                *)
(***************************************************************************)
File001 == <<"001_", "create_tweets_table", ".sql">>
File002 == <<"002_", "add_score_to_tweets", ".sql">>
File003 == <<"003_", "make_approved_nullable", ".sql">>
\* The two migrations below are in the sources without their file names: the one
\* that adds goldExampleType is the one the schema test knows as 005_, the one that
\* adds authorUsername is later than every file the schema test knows.
File005 == <<"005_", "add_gold_example_type", ".sql">>
File007 == <<"007_", "add_author_username", ".sql">>
Readme == <<"README", ".md">>

MigrationFiles == {File001, File002, File003, File005, File007}

\* The place of a file name in the sorted listing.
fileOrder(file) ==
  CASE file[1] = "001_" -> 1 [] file[1] = "002_" -> 2 [] file[1] = "003_" -> 3
    [] file[1] = "005_" -> 5 [] file[1] = "007_" -> 7 [] OTHER -> 9

\* readdirSync(migrationsDir).filter((file) => file.endsWith(".sql")).sort()
listMigrationFiles(migrationsDir) ==
  LET sql == {file \in migrationsDir : file[Len(file)] = ".sql"}
      n == Cardinality(sql)
      listing == CHOOSE s \in [1..n -> sql] :
                   \A i, j \in 1..n : i < j => fileOrder(s[i]) < fileOrder(s[j])
  IN listing

NoTable ==
  [exists |-> FALSE, columns |-> {}, approvedNotNull |-> FALSE, quoteDefault |-> FALSE,
   stored |-> {}]

\* A database without a table.
EmptyDb == [tweets |-> NoTable, indexes |-> {}, ledgerTable |-> FALSE, ledger |-> {}]

\* The tweets table of 001_create_tweets_table.sql and of 003's tweets_new.
TweetsTable ==
  [exists |-> TRUE,
   columns |-> {"id", "text", "quote", "url", "approved", "score", "createdAt", "updatedAt",
                "humanDecision", "goldExampleType", "goldExampleCorrection"},
   approvedNotNull |-> FALSE, quoteDefault |-> TRUE, stored |-> {}]

Done(d) == [db |-> d, error |-> Null]

\* A statement that fails: db.exec throws and applyMigration rolls the open
\* transaction back, so the database is as before the file.
Failed(d, error) == [db |-> d, error |-> error]

\* ALTER TABLE tweets ADD COLUMN column, then the index of the file if it has one.
addColumn(d, column, index) ==
  IF ~d.tweets.exists THEN Failed(d, "no such table")
  ELSE IF column \in d.tweets.columns THEN Failed(d, "duplicate column name")
  ELSE Done([d EXCEPT !.tweets.columns = @ \cup {column}, !.indexes = @ \cup index])

\* 001_create_tweets_table.sql: CREATE TABLE IF NOT EXISTS tweets, and the two indexes.
sql001(d) ==
  LET created == IF d.tweets.exists THEN d ELSE [d EXCEPT !.tweets = TweetsTable]
  IN IF "goldExampleType" \notin created.tweets.columns THEN Failed(d, "no such column")
     ELSE Done([created EXCEPT !.indexes = @ \cup {"idx_tweets_id", "idx_tweets_gold_example"}])

\* 002_add_score_to_tweets.sql
sql002(d) == addColumn(d, "score", {})

\* INSERT INTO tweets_new (...) SELECT ... FROM tweets: the columns 003 copies.
Copied003 == {"id", "text", "quote", "url", "approved", "score", "createdAt", "humanDecision"}

\* 003_make_approved_nullable.sql: tweets_new is created, filled from tweets, and
\* renamed to tweets; the indexes of the dropped table go with it.
sql003(d) ==
  IF ~d.tweets.exists THEN Failed(d, "no such table")
  ELSE IF ~(Copied003 \subseteq d.tweets.columns)
  THEN Failed(d, "no such column")
  ELSE Done([d EXCEPT !.tweets = [TweetsTable EXCEPT !.stored = d.tweets.stored \cap Copied003],
                      !.indexes = {"idx_tweets_id"}])

\* ALTER TABLE tweets ADD COLUMN goldExampleType, CREATE INDEX idx_tweets_gold_example
sql005(d) == addColumn(d, "goldExampleType", {"idx_tweets_gold_example"})

\* ALTER TABLE tweets ADD COLUMN authorUsername, CREATE INDEX idx_tweets_author
sql007(d) == addColumn(d, "authorUsername", {"idx_tweets_author"})

\* db.exec(readFileSync(filePath))
exec(d, file) ==
  CASE file = File001 -> sql001(d)
    [] file = File002 -> sql002(d)
    [] file = File003 -> sql003(d)
    [] file = File005 -> sql005(d)
    [] file = File007 -> sql007(d)

\* CREATE TABLE IF NOT EXISTS schema_migrations
ensureMigrationsTable(d) == [d EXCEPT !.ledgerTable = TRUE]

\* hasMigrationRecorded that finds no record.
hasMigrationRecorded_Never(d, filename) == FALSE

hasMigrationRecorded(d, filename) == filename \in d.ledger

\* INSERT OR IGNORE INTO schema_migrations (filename)
recordMigration(d, filename) == [d EXCEPT !.ledger = @ \cup {filename}]

tableExists(d, tableName) == tableName = "tweets" /\ d.tweets.exists

isMigrationAlreadyAppliedBySchema(d, filename) ==
  LET columns == d.tweets.columns
  IN IF filename[1] = "001_" THEN tableExists(d, "tweets")
     ELSE IF columns = {} THEN FALSE
     ELSE IF filename[1] = "002_" THEN "score" \in columns
     ELSE IF filename[1] = "003_"
     THEN ~d.tweets.approvedNotNull /\ "quote" \in columns /\ d.tweets.quoteDefault
     ELSE IF filename[1] = "004_" THEN "updatedAt" \in columns
     ELSE IF filename[1] = "005_" THEN "goldExampleType" \in columns
     ELSE IF filename[1] = "006_" THEN "goldExampleCorrection" \in columns
     ELSE FALSE

\* applyMigration whose catch block skips the file whatever the error.
applyMigration_SkipsAnyError(d, file) ==
  LET r == exec(d, file)
  IN [db |-> r.db, error |-> r.error, thrown |-> FALSE]

\* applyMigration: a duplicate column or a table that exists already is skipped,
\* every other error is thrown.
applyMigration(d, file) ==
  LET r == exec(d, file)
  IN [db |-> r.db, error |-> r.error,
      thrown |-> r.error \notin {Null, "duplicate column name", "already exists"}]

\* The loop of applyMigrations from the i-th file on; s is the database, the
\* migrations run, the writes issued (a migration that is executed, a record that
\* is inserted), the files handed to applyMigration in turn, each with the error of
\* its db.exec, and whether the run has thrown.
RECURSIVE applyFrom(_, _, _)
applyFrom(migrations, i, s) ==
  IF i > Len(migrations) \/ s.thrown THEN s
  ELSE LET file == migrations[i]
       IN IF hasMigrationRecorded(s.db, file) THEN applyFrom(migrations, i + 1, s)
          ELSE IF isMigrationAlreadyAppliedBySchema(s.db, file)
          THEN applyFrom(migrations, i + 1,
                         [s EXCEPT !.db = recordMigration(@, file), !.writes = @ + 1])
          ELSE LET r == applyMigration(s.db, file)
                   e == [file |-> file, error |-> r.error]
               IN IF r.thrown
                  THEN [s EXCEPT !.db = r.db, !.thrown = TRUE, !.executed = Append(@, e)]
                  ELSE applyFrom(migrations, i + 1,
                                 [s EXCEPT !.db = recordMigration(r.db, file),
                                           !.appliedCount = @ + 1, !.writes = @ + 2,
                                           !.executed = Append(@, e)])

\* applyMigrations: the database it leaves and {appliedCount, total}, or thrown.
applyMigrations(d, migrationsDir) ==
  LET migrations == listMigrationFiles(migrationsDir)
      start == [db |-> d, appliedCount |-> 0, total |-> Len(migrations),
                writes |-> 0, thrown |-> FALSE, executed |-> <<>>]
  IN IF Len(migrations) = 0 THEN start
     ELSE applyFrom(migrations, 1,
                    [start EXCEPT !.db = ensureMigrationsTable(d),
                                  !.writes = IF d.ledgerTable THEN 0 ELSE 1])

\* initDb: the database of a store, with every migration applied.
initDb == applyMigrations(EmptyDb, MigrationFiles \cup {Readme}).db

NoRun == [appliedCount |-> 0, total |-> 0, writes |-> 0, thrown |-> FALSE, executed |-> <<>>]

NoMigration ==
  [migrationsDir |-> {}, runs |-> 0, start |-> EmptyDb, before |-> EmptyDb,
   previous |-> NoRun, result |-> NoRun]

(***************************************************************************)
(* The queries of the store. A table that is queried is a function from    *)
(* 1..n to rows: the ids stand for the rowids, the order of a table scan.  *)
(***************************************************************************)
DEFAULT_PAGE_SIZE == 20

MAX_PAGE_SIZE == 100

min(a, b) == IF a <= b THEN a ELSE b

NoQuery == [op |-> Null]

\* normalizePagination with the offset of a page counted from 0.
normalizePagination_PageFromZero(options) ==
  LET page == max(1, IF "page" \in DOMAIN options THEN options.page ELSE 1)
      requestedSize == max(1, IF "pageSize" \in DOMAIN options THEN options.pageSize
                              ELSE DEFAULT_PAGE_SIZE)
      pageSize == min(requestedSize, MAX_PAGE_SIZE)
  IN [page |-> page, pageSize |-> pageSize, limit |-> pageSize, offset |-> page * pageSize]

\* normalizePagination(options): options is a record with the fields that were given
\* (options?.page ?? 1, options?.pageSize ?? DEFAULT_PAGE_SIZE); the numbers are
\* integers, on which Math.floor is the identity.
normalizePagination(options) ==
  LET page == max(1, IF "page" \in DOMAIN options THEN options.page ELSE 1)
      requestedSize == max(1, IF "pageSize" \in DOMAIN options THEN options.pageSize
                              ELSE DEFAULT_PAGE_SIZE)
      pageSize == min(requestedSize, MAX_PAGE_SIZE)
  IN [page |-> page, pageSize |-> pageSize, limit |-> pageSize,
      offset |-> (page - 1) * pageSize]

\* The where clause with the gold example type tested as well as the flag.
whereOf_NoTypeTest(row, filters) ==
  /\ filters.hasModelDecision = "true" => row.approved # NullInt
  /\ filters.hasModelDecision = "false" => row.approved = NullInt
  /\ filters.approved # Null => row.approved = (IF filters.approved = "true" THEN 1 ELSE 0)
  /\ filters.humanDecision \in {"APPROVED", "REJECTED"} => row.humanDecision = filters.humanDecision
  /\ filters.humanDecision = "UNSET" => row.humanDecision = Null
  /\ filters.hasGoldExample = "true" => row.goldExampleType # Null
  /\ filters.hasGoldExample = "false" => row.goldExampleType = Null

\* The where clause list builds from the filters; a filter that is not given is Null,
\* a boolean is "true" or "false". A comparison with a NULL column selects no row.
whereOf(row, filters) ==
  /\ IF filters.hasModelDecision = "true" THEN row.approved # NullInt
     ELSE IF filters.hasModelDecision = "false" THEN row.approved = NullInt
     ELSE TRUE
  /\ IF filters.approved # Null
     THEN row.approved = (IF filters.approved = "true" THEN 1 ELSE 0)
     ELSE TRUE
  /\ IF filters.humanDecision = "APPROVED" \/ filters.humanDecision = "REJECTED"
     THEN row.humanDecision = filters.humanDecision
     ELSE IF filters.humanDecision = "UNSET" THEN row.humanDecision = Null
     ELSE TRUE
  /\ IF filters.goldExampleType # Null THEN row.goldExampleType = filters.goldExampleType
     ELSE IF filters.hasGoldExample = "true" THEN row.goldExampleType # Null
     ELSE IF filters.hasGoldExample = "false" THEN row.goldExampleType = Null
     ELSE TRUE

\* COALESCE(updatedAt, createdAt)
updatedOrCreated(row) == IF row.updatedAt # NullInt THEN row.updatedAt ELSE row.createdAt

\* The rows of the table in the order of a scan.
scan(tw) == [i \in 1..Cardinality(DOMAIN tw) |-> i]

\* list(filters, pagination): the where clause, ORDER BY datetime(COALESCE(updatedAt,
\* createdAt)) DESC (equal times in the order of the scan), LIMIT and OFFSET, and the
\* COUNT(*) of the same where clause. The rows are returned by their ids.
list(tw, filters, pagination) ==
  LET normalizedPagination == normalizePagination(pagination)
      selected == SelectSeq(scan(tw), LAMBDA id : whereOf(tw[id], filters))
      ordered == SortSeq(selected, LAMBDA a, b :
                   \/ updatedOrCreated(tw[a]) > updatedOrCreated(tw[b])
                   \/ updatedOrCreated(tw[a]) = updatedOrCreated(tw[b]) /\ a < b)
      rows == SubSeq(ordered, normalizedPagination.offset + 1,
                     min(Len(ordered), normalizedPagination.offset + normalizedPagination.limit))
  IN [tweets |-> rows, total |-> Len(selected),
      page |-> normalizedPagination.page, pageSize |-> normalizedPagination.pageSize]

\* ORDER BY goldExampleType: 'BAD' sorts before 'GOOD'.
typeOrder(type) == IF type = "BAD" THEN 1 ELSE 2

\* getGoldExamples that orders by updatedAt alone, whether a type is given or not.
getGoldExamplesSeq_ByTimeOnly(tw, type) ==
  LET selected == SelectSeq(scan(tw), LAMBDA id :
                    IF type # Null THEN tw[id].goldExampleType = type
                    ELSE tw[id].goldExampleType # Null)
  IN SortSeq(selected, LAMBDA a, b :
       \/ tw[a].updatedAt > tw[b].updatedAt
       \/ tw[a].updatedAt = tw[b].updatedAt /\ a < b)

\* getGoldExamples(type?) as the sequence of the rows' ids. With a type: WHERE
\* goldExampleType = @type ORDER BY updatedAt DESC; without: WHERE goldExampleType IS
\* NOT NULL ORDER BY goldExampleType, updatedAt DESC. Equal keys come in the order of
\* the scan; a NULL updatedAt (NullInt) is below every time.
getGoldExamplesSeq(tw, type) ==
  LET selected == SelectSeq(scan(tw), LAMBDA id :
                    IF type # Null THEN tw[id].goldExampleType = type
                    ELSE tw[id].goldExampleType # Null)
  IN IF type # Null
     THEN SortSeq(selected, LAMBDA a, b :
            \/ tw[a].updatedAt > tw[b].updatedAt
            \/ tw[a].updatedAt = tw[b].updatedAt /\ a < b)
     ELSE SortSeq(selected, LAMBDA a, b :
            \/ typeOrder(tw[a].goldExampleType) < typeOrder(tw[b].goldExampleType)
            \/ /\ tw[a].goldExampleType = tw[b].goldExampleType
               /\ \/ tw[a].updatedAt > tw[b].updatedAt
                  \/ tw[a].updatedAt = tw[b].updatedAt /\ a < b)

\* loadFewShotExamples as a sequence: the rows of getGoldExamples() in their order.
loadFewShotExamplesSeq(tw) ==
  LET goldExamples == getGoldExamplesSeq(tw, Null)
  IN [i \in 1..Len(goldExamples) |->
        [tweetText |-> tw[goldExamples[i]].text,
         response |-> tw[goldExamples[i]].quote,
         correction |-> tw[goldExamples[i]].goldExampleCorrection,
         type |-> tw[goldExamples[i]].goldExampleType]]

\* tweetText.slice(0, 200) followed by "..." when the text is longer; a text is its
\* body and its length.
shown(tweetText) ==
  [text |-> [tweetText EXCEPT !.len = min(tweetText.len, 200)],
   ellipsis |-> tweetText.len > 200]

\* slice(0, n) of a sequence.
slice(s, n) == SubSeq(s, 1, min(Len(s), n))

\* buildPromptWithExamples that takes the last five of each type.
buildPromptWithExamples_LastFive(examples) ==
  LET good == SelectSeq(examples, LAMBDA e : e.type = "GOOD")
      bad == SelectSeq(examples, LAMBDA e : e.type = "BAD")
      goodExamples == SubSeq(good, Len(good) - min(Len(good), 5) + 1, Len(good))
      badExamples == SubSeq(bad, Len(bad) - min(Len(bad), 5) + 1, Len(bad))
  IN <<[part |-> "basePrompt"]>> \o
     (IF Len(goodExamples) > 0 \/ Len(badExamples) > 0
      THEN <<[part |-> "few-shot examples"]>> \o
           (IF Len(badExamples) > 0
            THEN <<[part |-> "rejected examples"]>> \o
                 [i \in 1..Len(badExamples) |->
                    [part |-> "rejected", example |-> i,
                     tweet |-> shown(badExamples[i].tweetText),
                     decision |-> IF badExamples[i].correction \notin {Null, ""}
                                  THEN <<badExamples[i].correction>>
                                  ELSE badExamples[i].response]]
            ELSE <<>>) \o
           (IF Len(goodExamples) > 0
            THEN <<[part |-> "approved examples"]>> \o
                 [i \in 1..Len(goodExamples) |->
                    [part |-> "approved", example |-> i,
                     tweet |-> shown(goodExamples[i].tweetText),
                     decision |-> goodExamples[i].response]]
            ELSE <<>>) \o
           <<[part |-> "---"]>>
      ELSE <<>>)

\* buildPromptWithExamples: the prompt as the sequence of its parts. The first five
\* examples of each type; the rejected section before the approved one; a rejected
\* example shows its correction when it has one (as a one-line decision), else the
\* response.
buildPromptWithExamples(examples) ==
  LET goodExamples == slice(SelectSeq(examples, LAMBDA e : e.type = "GOOD"), 5)
      badExamples == slice(SelectSeq(examples, LAMBDA e : e.type = "BAD"), 5)
  IN <<[part |-> "basePrompt"]>> \o
     (IF Len(goodExamples) > 0 \/ Len(badExamples) > 0
      THEN <<[part |-> "few-shot examples"]>> \o
           (IF Len(badExamples) > 0
            THEN <<[part |-> "rejected examples"]>> \o
                 [i \in 1..Len(badExamples) |->
                    [part |-> "rejected", example |-> i,
                     tweet |-> shown(badExamples[i].tweetText),
                     decision |-> IF badExamples[i].correction \notin {Null, ""}
                                  THEN <<badExamples[i].correction>>
                                  ELSE badExamples[i].response]]
            ELSE <<>>) \o
           (IF Len(goodExamples) > 0
            THEN <<[part |-> "approved examples"]>> \o
                 [i \in 1..Len(goodExamples) |->
                    [part |-> "approved", example |-> i,
                     tweet |-> shown(goodExamples[i].tweetText),
                     decision |-> goodExamples[i].response]]
            ELSE <<>>) \o
           <<[part |-> "---"]>>
      ELSE <<>>)

\* computeFrequencyState that tests the 30-day count before the 7-day count.
computeFrequencyState_WarmFirst(postsLast7Days, postsLast30Days) ==
  IF postsLast7Days = 0 /\ postsLast30Days = 0 THEN "fresh"
  ELSE IF postsLast30Days >= 3 THEN "warm"
  ELSE IF postsLast7Days >= 2 THEN "hot"
  ELSE "healthy"

computeFrequencyState(postsLast7Days, postsLast30Days) ==
  IF postsLast7Days = 0 /\ postsLast30Days = 0 THEN "fresh"
  ELSE IF postsLast7Days >= 2 THEN "hot"
  ELSE IF postsLast30Days >= 3 THEN "warm"
  ELSE "healthy"

\* SELECT COUNT(*) FROM tweets WHERE authorUsername = @authorUsername AND (approved = 1
\* OR humanDecision = 'APPROVED') AND datetime(COALESCE(updatedAt, createdAt)) >=
\* datetime('now', '-N days'); times are in days and t is now.
countSince(tw, authorUsername, t, days) ==
  Cardinality({id \in DOMAIN tw :
                 /\ tw[id].authorUsername = authorUsername
                 /\ (tw[id].approved = 1 \/ tw[id].humanDecision = "APPROVED")
                 /\ updatedOrCreated(tw[id]) >= t - days})

getAuthorFrequency(tw, authorUsername, t) ==
  LET postsLast7Days == countSince(tw, authorUsername, t, 7)
      postsLast30Days == countSince(tw, authorUsername, t, 30)
  IN [postsLast7Days |-> postsLast7Days,
      postsLast30Days |-> postsLast30Days,
      frequencyState |-> computeFrequencyState(postsLast7Days, postsLast30Days)]

(***************************************************************************)
(* The judge's answers used where the text itself is not the subject.       *)
(***************************************************************************)
SysOutputs ==
  { <<>>,
    <<"approved">>,
    <<"Rejected", "WS", "approved">>,
    <<"Rejected", "Percentile:", "D5">>,
    <<"Approved">>,
    <<"Approved", "WS", "Percentile:", "WS", "D5", "D0">>,
    <<"Approved", "Percentile:", "D1", "D0", "D0">>,
    <<"Approved", "Percentile:", "D1", "D5", "D0">> }

\* The answers of the judge in the running system: no marker, rejected, approved with
\* a percentile in range, approved with a percentile out of range.
JudgeOutputs ==
  { <<"approved">>,
    <<"Rejected", "WS", "approved">>,
    <<"Approved", "Percentile:", "D1", "D0", "D0">>,
    <<"Approved", "Percentile:", "D1", "D5", "D0">> }

\* The errors of the oracle in the running system: one that is no API error, and a 429
\* whose code is insufficient_quota.
JudgeErrors ==
  { OtherError,
    [api |-> TRUE, status |-> 429, code |-> "insufficient_quota", type |-> "", message |-> {}, hint |-> NullInt] }

(***************************************************************************)
(* The config side table (getConfig / setConfig of the store).              *)
(***************************************************************************)
RESPONSE_ID_KEY == "previousResponseId"

getConfig(cfg, key) == cfg[key]

\* setConfig that does not reach the table.
setConfig_NotPersisted(cfg, key, value) == cfg

setConfig(cfg, key, value) == [cfg EXCEPT ![key] = value]

(***************************************************************************)
(* The running system: the batch run, the review server, the clock.         *)
(***************************************************************************)
Tweet(id, text, url, author) == [id |-> id, text |-> text, url |-> url, author |-> author]

\* The tweets the sources hold: t1 in two versions (its text edited, its link in two
\* forms), t2 by either author.
FeedTweets ==
  { Tweet("t1", "a", <<"x.com", "alice", "status">>, "alice"),
    Tweet("t1", "b", OtherUrl, "alice"),
    Tweet("t2", "a", <<"x.com", "alice", "status">>, "alice"),
    Tweet("t2", "a", <<"x.com", "kaspaunchained", "status">>, "kaspaunchained") }

\* What getTweets returns: tweets with distinct ids, in the order of the ids.
Feeds ==
  {<<>>} \cup {<<t>> : t \in {u \in FeedTweets : u.id = "t1"}}
         \cup {p \in FeedTweets \X FeedTweets : p[1].id = "t1" /\ p[1].text = "a" /\ p[2].id = "t2"}

\* The count of a run. In every specification but SpecRun nothing is counted.
NoTally == [on |-> FALSE, calls |-> 0, judged |-> <<>>, skipped |-> <<>>]

\* A run starts.
tallyStart(t) == [NoTally EXCEPT !.on = t.on]

\* openAiClient.responses.create was called once more.
tallyCall(t) == IF t.on THEN [t EXCEPT !.calls = @ + 1] ELSE t

\* store.save(payload) for the i-th tweet to process.
tallyJudged(t, i) == IF t.on THEN [t EXCEPT !.judged = Append(@, i)] ELSE t

\* skippedCount++ for the i-th tweet to process.
tallySkipped(t, i) == IF t.on THEN [t EXCEPT !.skipped = Append(@, i)] ELSE t

IdleBatch == [pc |-> "idle", runs |-> 0, tweets |-> <<>>, k |-> 0, examples |-> {},
              toProcess |-> <<>>, i |-> 0, previousResponseId |-> NullInt,
              call |-> IdleCall, exitCode |-> 0]

IdleReq == [pc |-> "idle", kind |-> Null, id |-> Null, text |-> Null, url |-> <<>>,
            examples |-> {}, previousResponseId |-> NullInt, call |-> IdleCall, status |-> 0]

\* What a step wrote to the tweets table: the operation, the row's id and the row as it
\* was before; the outcome of the judge call that ended in the step and the HTTP status
\* the server answered in it (0: none). NoWrite: the step wrote no row.
NoWrite == [op |-> Null, id |-> Null, before |-> NoRow, outcome |-> NoOutcome, status |-> 0]

Write(op, id) == [NoWrite EXCEPT !.op = op, !.id = id, !.before = tweets[id]]

Ended(w, outcome, status) == [w EXCEPT !.outcome = outcome, !.status = status]

SysInit ==
  /\ tweets = [id \in Ids |-> NoRow]
  /\ config = [previousResponseId |-> NullInt]
  /\ now = 0
  /\ batch = IdleBatch
  /\ req = IdleReq
  /\ respSeq = 0
  /\ last = NoWrite
  /\ events = 0
  /\ query = NoQuery
  /\ tally = NoTally
  /\ db = initDb
  /\ migration = NoMigration

Tick ==
  /\ events < MaxEvents
  /\ events' = events + 1
  /\ now' = now + 1
  /\ last' = NoWrite
  /\ UNCHANGED <<tally, call, db, migration, query, tweets, config, batch, req, respSeq>>

\* main: parseArgs, createTweetStore, getTweets.
BatchStart ==
  /\ batch.pc = "idle"
  /\ batch.runs < MaxRuns
  /\ \E feed \in Feeds :
       batch' = [IdleBatch EXCEPT !.pc = "ingest", !.runs = batch.runs + 1, !.tweets = feed, !.k = 1]
  /\ last' = NoWrite
  /\ tally' = tallyStart(tally)
  /\ UNCHANGED <<call, db, migration, query, tweets, config, now, req, respSeq, events>>

\* getTweets throws: the catch sets the exit code.
BatchFetchFails ==
  /\ batch.pc = "idle"
  /\ batch.runs < MaxRuns
  /\ batch' = [IdleBatch EXCEPT !.pc = "done", !.runs = batch.runs + 1, !.exitCode = 1]
  /\ last' = NoWrite
  /\ tally' = tallyStart(tally)
  /\ UNCHANGED <<call, db, migration, query, tweets, config, now, req, respSeq, events>>

\* for (const tweet of tweets) store.saveRaw({id, text, url}), one tweet a step.
BatchSaveRaw ==
  /\ batch.pc = "ingest"
  /\ batch.k <= Len(batch.tweets)
  /\ LET tweet == batch.tweets[batch.k]
         rawInput == [id |-> tweet.id, text |-> tweet.text, url |-> tweet.url, authorUsername |-> Null]
     IN /\ tweets' = saveRaw(tweets, rawInput, now)
        /\ last' = Write("saveRaw", tweet.id)
  /\ batch' = [batch EXCEPT !.k = @ + 1]
  /\ UNCHANGED <<tally, call, db, migration, query, config, now, req, respSeq, events>>

\* The filter loop without the test of the author.
toProcessOf_JudgesSelfAuthor(tw, feed, k) ==
  SelectSeq(SubSeq(feed, k, Len(feed)), LAMBDA tweet : ~hasModelDecision(tw, tweet.id))

\* The tweets of the feed that are to be judged: the self-author and the judged are
\* skipped.
RECURSIVE toProcessOf(_, _, _)
toProcessOf(tw, feed, k) ==
  IF k > Len(feed) THEN <<>>
  ELSE LET tweet == feed[k]
           rest == toProcessOf(tw, feed, k + 1)
       IN IF tweet.author = "kaspaunchained" THEN rest
          ELSE IF hasModelDecision(tw, tweet.id) THEN rest
          ELSE <<tweet>> \o rest

\* After the last saveRaw, without an await in between: loadFewShotExamples, the
\* filter loop, the return when nothing is left to process, getConfig.
BatchPrepare ==
  /\ batch.pc = "ingest"
  /\ batch.k > Len(batch.tweets)
  /\ LET toProcess == toProcessOf(tweets, batch.tweets, 1)
         loaded == [batch EXCEPT !.examples = loadFewShotExamples(tweets), !.toProcess = toProcess]
     IN batch' = IF Len(toProcess) = 0
                 THEN [loaded EXCEPT !.pc = "done"]
                 ELSE [loaded EXCEPT !.pc = "judge", !.i = 1,
                                     !.previousResponseId = getConfig(config, RESPONSE_ID_KEY),
                                     !.call = callStart("askTweetDecision")]
  /\ last' = NoWrite
  /\ UNCHANGED <<tally, call, db, migration, query, tweets, config, now, req, respSeq, events>>

\* The loop that starts every call on a fresh chain.
nextTweet_FreshChain(b) ==
  IF b.i + 1 <= Len(b.toProcess)
  THEN [b EXCEPT !.pc = "judge", !.i = @ + 1, !.call = callStart("askTweetDecision"),
                 !.previousResponseId = NullInt]
  ELSE [b EXCEPT !.pc = "done", !.i = @ + 1, !.call = IdleCall]

\* The loop goes on to the next tweet, or main ends.
nextTweet(b) ==
  IF b.i + 1 <= Len(b.toProcess)
  THEN [b EXCEPT !.pc = "judge", !.i = @ + 1, !.call = callStart("askTweetDecision")]
  ELSE [b EXCEPT !.pc = "done", !.i = @ + 1, !.call = IdleCall]

\* main's catch blocks that end the run with exit code 1 whatever was thrown.
mainCatch_MalformedAborts(b, outcome) ==
  [b EXCEPT !.pc = "done", !.call = IdleCall, !.exitCode = 1]

\* main's catch blocks that skip the tweet whatever was thrown.
mainCatch_SkipsAnyError(b, outcome) ==
  nextTweet(b)

\* main's catch blocks that judge the same tweet again after a malformed response.
mainCatch_RetriesMalformed(b, outcome) ==
  IF outcome.kind = "MalformedResponseError"
  THEN [b EXCEPT !.call = callStart("askTweetDecision")]
  ELSE [b EXCEPT !.pc = "done", !.call = IdleCall, !.exitCode = 1]

\* main's catch blocks that start a new chain after a malformed response.
mainCatch_ResetsChain(b, outcome) ==
  IF outcome.kind = "MalformedResponseError"
  THEN nextTweet([b EXCEPT !.previousResponseId = NullInt])
  ELSE [b EXCEPT !.pc = "done", !.call = IdleCall, !.exitCode = 1]

\* The catch blocks of main for what askTweetDecision threw: a MalformedResponseError
\* skips the tweet (continue); anything else is thrown on to the outer catch, which
\* sets process.exitCode = 1 and ends the run.
mainCatch(b, outcome) ==
  IF outcome.kind = "MalformedResponseError"
  THEN nextTweet(b)
  ELSE [b EXCEPT !.pc = "done", !.call = IdleCall, !.exitCode = 1]

\* The oracle answers the batch's call. A result: previousResponseId = responseId,
\* store.setConfig and store.save(payload), without an await in between. A
\* MalformedResponseError: skip the tweet and continue.
BatchOracleReturns ==
  /\ batch.pc = "judge"
  /\ batch.call.pc = "attempt"
  /\ respSeq < MaxResponses
  /\ respSeq' = respSeq + 1
  /\ \E out \in JudgeOutputs :
       LET c == callReturns(batch.call, out, respSeq + 1)
           r == c.outcome
           tweet == batch.toProcess[batch.i]
           payload == [id |-> tweet.id, text |-> tweet.text, url |-> tweet.url,
                       quote |-> r.quote, approved |-> r.approved, score |-> r.score]
       IN IF r.kind = "result"
          THEN /\ batch' = nextTweet([batch EXCEPT !.previousResponseId = r.responseId])
               /\ tally' = tallyJudged(tallyCall(tally), batch.i)
               /\ config' = setConfig(config, RESPONSE_ID_KEY, r.responseId)
               /\ tweets' = save(tweets, payload, now)
               /\ last' = Ended(Write("save", tweet.id), r, 0)
          ELSE /\ batch' = mainCatch(batch, r)
               /\ tally' = tallySkipped(tallyCall(tally), batch.i)
               /\ last' = Ended(NoWrite, r, 0) /\ UNCHANGED <<config, tweets>>
  /\ UNCHANGED <<call, db, migration, query, now, req, events>>

\* The oracle call of the batch throws: after the backoff delay the next attempt is
\* under way, or the error reaches main's catch, which sets the exit code.
BatchOracleThrows ==
  /\ batch.pc = "judge"
  /\ batch.call.pc = "attempt"
  /\ \E error \in JudgeErrors :
       LET c == callFails(batch.call, error)
       IN IF c.pc = "done"
          THEN /\ batch' = mainCatch(batch, c.outcome)
               /\ last' = Ended(NoWrite, c.outcome, 0)
          ELSE /\ batch' = [batch EXCEPT !.call = c]
               /\ last' = NoWrite
  /\ tally' = tallyCall(tally)
  /\ UNCHANGED <<call, db, migration, query, tweets, config, now, req, respSeq, events>>

\* The process dies inside the block that follows a result of askTweetDecision, after
\* store.setConfig and before store.save: the handle is in the store, the decision is
\* not, and the run is over.
BatchCrash ==
  /\ batch.pc = "judge"
  /\ batch.call.pc = "attempt"
  /\ respSeq < MaxResponses
  /\ respSeq' = respSeq + 1
  /\ \E out \in JudgeOutputs :
       LET r == callReturns(batch.call, out, respSeq + 1).outcome
       IN /\ r.kind = "result"
          /\ config' = setConfig(config, RESPONSE_ID_KEY, r.responseId)
          /\ last' = Ended(NoWrite, r, 0)
  /\ batch' = [IdleBatch EXCEPT !.runs = batch.runs]
  /\ tally' = tallyCall(tally)
  /\ UNCHANGED <<call, db, migration, query, tweets, now, req, events>>

\* The process has ended; the next run starts from nothing but the store.
BatchExit ==
  /\ batch.pc = "done"
  /\ batch' = [IdleBatch EXCEPT !.runs = batch.runs]
  /\ last' = NoWrite
  /\ UNCHANGED <<tally, call, db, migration, query, tweets, config, now, req, respSeq, events>>

(***************************************************************************)
(* The review server (server.ts). A request body holds what the client      *)
(* sent: Null is a field left out.                                          *)
(***************************************************************************)
DecisionInputs == {Null, "APPROVED", "REJECTED", "approved"}

TypeInputs == {Null, "GOOD", "BAD", "good"}

CorrectionInputs == {Null, "", "too generic"}

\* A value that is truthy in JavaScript (of the strings and null).
truthy(v) == v # Null /\ v # ""

normalizeDecision(value) == IF value = "APPROVED" \/ value = "REJECTED" THEN value ELSE Null

normalizeGoldExampleType(value) == IF value = "GOOD" \/ value = "BAD" THEN value ELSE Null

\* POST /tweets/:id/human-decision: what the handler writes; 401 and 400 write nothing.
humanDecisionHandler(tw, id, decision, authorized, t) ==
  IF ~authorized THEN tw
  ELSE IF ~truthy(normalizeDecision(decision)) THEN tw
  ELSE updateHumanDecision(tw, id, normalizeDecision(decision), t)

humanDecisionWrites(decision, authorized) == authorized /\ truthy(normalizeDecision(decision))

HumanDecisionRequest ==
  /\ events < MaxEvents
  /\ \E id \in Ids, decision \in DecisionInputs, authorized \in BOOLEAN :
       /\ tweets' = humanDecisionHandler(tweets, id, decision, authorized, now)
       /\ last' = IF humanDecisionWrites(decision, authorized)
                  THEN Write("updateHumanDecision", id) ELSE NoWrite
       /\ events' = IF humanDecisionWrites(decision, authorized) THEN events + 1 ELSE events
  /\ UNCHANGED <<tally, call, db, migration, query, config, now, batch, req, respSeq>>

\* The handler that stores the correction whatever the type is.
goldExampleHandler_KeepsCorrection(tw, id, type, correction, authorized, t) ==
  IF ~authorized THEN tw
  ELSE IF truthy(type) /\ ~truthy(normalizeGoldExampleType(type)) THEN tw
  ELSE IF normalizeGoldExampleType(type) = "BAD" /\ ~truthy(correction) THEN tw
  ELSE IF tw[id] = NoRow THEN tw
  ELSE [tw EXCEPT ![id] = [@ EXCEPT !.goldExampleType = normalizeGoldExampleType(type),
                                    !.goldExampleCorrection = correction, !.updatedAt = t]]

\* POST /api/admin/tweets/:id/gold-example: what the handler writes; 401, 400 and 404
\* write nothing.
goldExampleHandler(tw, id, type, correction, authorized, t) ==
  LET normalized == normalizeGoldExampleType(type)
      correctionToStore == IF normalized = "BAD" THEN correction ELSE Null
  IN IF ~authorized THEN tw
     ELSE IF truthy(type) /\ ~truthy(normalized) THEN tw
     ELSE IF normalized = "BAD" /\ ~truthy(correction) THEN tw
     ELSE IF get(tw, id) = NoRow THEN tw
     ELSE setGoldExample(tw, id, normalized, correctionToStore, t)

goldExampleWrites(tw, id, type, correction, authorized) ==
  /\ authorized
  /\ ~(truthy(type) /\ ~truthy(normalizeGoldExampleType(type)))
  /\ ~(normalizeGoldExampleType(type) = "BAD" /\ ~truthy(correction))
  /\ get(tw, id) # NoRow

GoldExampleRequest ==
  /\ events < MaxEvents
  /\ \E id \in Ids, type \in TypeInputs, correction \in CorrectionInputs, authorized \in BOOLEAN :
       /\ tweets' = goldExampleHandler(tweets, id, type, correction, authorized, now)
       /\ last' = IF goldExampleWrites(tweets, id, type, correction, authorized)
                  THEN Write("setGoldExample", id) ELSE NoWrite
       /\ events' = IF goldExampleWrites(tweets, id, type, correction, authorized)
                     THEN events + 1 ELSE events
  /\ UNCHANGED <<tally, call, db, migration, query, config, now, batch, req, respSeq>>

\* POST /api/admin/tweets/:id/process and POST /tweets/:id/reeval up to the judge
\* call: store.get, the check of the model decision, loadFewShotExamples, getConfig.
\* 401, 404 and 400 end the request at once.
requestAdmitted(kind, row) ==
  IF row = NoRow THEN FALSE
  ELSE IF kind = "process" THEN approvedOf(row) = Null
  ELSE approvedOf(row) = "true"

RequestStart ==
  /\ req.pc = "idle"
  /\ events < MaxEvents
  /\ \E kind \in {"process", "reeval"}, id \in Ids, authorized \in BOOLEAN :
       LET tweet == get(tweets, id)
           admitted == authorized /\ requestAdmitted(kind, tweet)
       IN /\ events' = IF admitted THEN events + 1 ELSE events
          /\ req' = IF admitted
                 THEN [IdleReq EXCEPT !.pc = "judge", !.kind = kind, !.id = id,
                                      !.text = tweet.text, !.url = tweet.url,
                                      !.examples = loadFewShotExamples(tweets),
                                      !.previousResponseId = getConfig(config, RESPONSE_ID_KEY),
                                      !.call = callStart("askTweetDecision")]
                 ELSE req
  /\ last' = NoWrite
  /\ UNCHANGED <<tally, call, db, migration, query, tweets, config, now, batch, respSeq>>

\* A re-evaluation that saves whatever the judge answered.
reevalRejected_Never(kind, r) == FALSE

\* reeval: if (!approved) return res.status(500).send("Re-evaluation resulted in
\* rejection"), before store.save; process has no such test.
reevalRejected(kind, r) == kind = "reeval" /\ ~r.approved

\* The oracle answers the request's call. A result: store.setConfig, then store.save
\* and the answer; a re-evaluation that is not approved answers 500 and saves nothing.
\* A MalformedResponseError: 500.
RequestOracleReturns ==
  /\ req.pc = "judge"
  /\ req.call.pc = "attempt"
  /\ respSeq < MaxResponses
  /\ respSeq' = respSeq + 1
  /\ \E out \in JudgeOutputs :
       LET c == callReturns(req.call, out, respSeq + 1)
           r == c.outcome
           payload == [id |-> req.id, text |-> req.text, url |-> req.url,
                       quote |-> r.quote, approved |-> r.approved, score |-> r.score]
       IN IF r.kind = "result"
          THEN /\ config' = setConfig(config, RESPONSE_ID_KEY, r.responseId)
               /\ IF reevalRejected(req.kind, r)
                  THEN last' = Ended(NoWrite, r, 500) /\ UNCHANGED tweets
                  ELSE /\ tweets' = save(tweets, payload, now)
                       /\ last' = Ended(Write("save", req.id), r, 200)
          ELSE last' = Ended(NoWrite, r, 500) /\ UNCHANGED <<config, tweets>>
  /\ req' = IdleReq
  /\ UNCHANGED <<tally, call, db, migration, query, now, batch, events>>

\* The oracle call of the request throws: after the backoff delay the next attempt is
\* under way, or the handler answers 500.
RequestOracleThrows ==
  /\ req.pc = "judge"
  /\ req.call.pc = "attempt"
  /\ \E error \in JudgeErrors :
       LET c == callFails(req.call, error)
       IN IF c.pc = "done"
          THEN /\ req' = IdleReq
               /\ last' = Ended(NoWrite, c.outcome, 500)
          ELSE /\ req' = [req EXCEPT !.call = c]
               /\ last' = NoWrite
  /\ UNCHANGED <<tally, call, db, migration, query, tweets, config, now, batch, respSeq, events>>

Init == call = IdleCall /\ SysInit

Next ==
  \/ Tick
  \/ BatchStart
  \/ BatchFetchFails
  \/ BatchSaveRaw
  \/ BatchPrepare
  \/ BatchOracleReturns
  \/ BatchOracleThrows
  \/ BatchCrash
  \/ BatchExit
  \/ HumanDecisionRequest
  \/ GoldExampleRequest
  \/ RequestStart
  \/ RequestOracleReturns
  \/ RequestOracleThrows

Spec == Init /\ [][Next]_vars

(***************************************************************************)
(* SpecParse: askTweetDecision applied to every output text of the oracle.  *)
(***************************************************************************)
InitParse == call = callStart("askTweetDecision") /\ SysInit

ParseOutput ==
  /\ call.pc = "attempt"
  /\ \E out \in Outputs \cup {NoText} : call' = callReturns(call, out, 1)
  /\ UNCHANGED sysVars

NextParse == ParseOutput

SpecParse == InitParse /\ [][NextParse]_vars

(***************************************************************************)
(* SpecRetry: one logical call against an oracle that returns or throws.    *)
(***************************************************************************)
InitRetry == call = IdleCall /\ SysInit

CallBegin ==
  /\ call.pc = "idle"
  /\ \E fn \in CallFns : call' = callStart(fn)
  /\ UNCHANGED sysVars

OperationThrows ==
  /\ call.pc = "attempt"
  /\ \E error \in Errors : call' = callThrows(call, error)
  /\ UNCHANGED sysVars

OperationReturns ==
  /\ call.pc = "attempt"
  /\ \E out \in SysOutputs : call' = callReturns(call, out, 1)
  /\ UNCHANGED sysVars

BackoffElapsed ==
  /\ call.pc = "backoff"
  /\ call' = callResumes(call)
  /\ UNCHANGED sysVars

NextRetry == CallBegin \/ OperationThrows \/ OperationReturns \/ BackoffElapsed

SpecRetry == InitRetry /\ [][NextRetry]_vars

(***************************************************************************)
(* SpecList: list on tables of several sizes, with every combination of    *)
(* filters and a range of pages and page sizes.                            *)
(***************************************************************************)
\* The k-th row of a listed table: the model decision, the human decision and the
\* gold example run through their 27 combinations; a row that was only ingested has
\* no updatedAt, another row was updated at or after its creation.
RowAt(k) ==
  LET approved == <<NullInt, 0, 1>>[(k % 3) + 1]
      humanDecision == <<Null, "APPROVED", "REJECTED">>[((k \div 3) % 3) + 1]
      goldExampleType == <<Null, "GOOD", "BAD">>[((k \div 9) % 3) + 1]
      createdAt == (k * 2) % 5
      raw == approved = NullInt /\ humanDecision = Null /\ goldExampleType = Null
  IN [newRow("a", OtherUrl, createdAt) EXCEPT
        !.approved = approved,
        !.score = IF approved = 1 THEN (k * 37) % 101 ELSE 0,
        !.quote = IF approved = NullInt THEN <<>> ELSE <<"Rejected">>,
        !.humanDecision = humanDecision,
        !.goldExampleType = goldExampleType,
        !.goldExampleCorrection = IF goldExampleType = "BAD" THEN "too generic" ELSE Null,
        !.updatedAt = IF raw THEN NullInt ELSE createdAt + (k % 4)]

ListSizes == {0, 1, 27, 45, MaxRows}

ListTables == {[k \in 1..n |-> RowAt(k)] : n \in ListSizes}

TriState == {Null, "true", "false"}

ListFilters ==
  [hasModelDecision : TriState, approved : TriState,
   humanDecision : {Null, "APPROVED", "REJECTED", "UNSET"},
   goldExampleType : {Null, "GOOD", "BAD"}, hasGoldExample : TriState]

PageInputs == {0, 1, 2, 3, 6}

PageSizeInputs == {0, 1, 20, 100, 150}

Paginations ==
  {[field \in {} |-> 0]} \cup {[page |-> p] : p \in PageInputs}
         \cup {[pageSize |-> s] : s \in PageSizeInputs}
         \cup {[page |-> p, pageSize |-> s] : p \in PageInputs, s \in PageSizeInputs}

InitList ==
  /\ call = IdleCall
  /\ tweets \in ListTables
  /\ config = [previousResponseId |-> NullInt]
  /\ now = 0
  /\ batch = IdleBatch
  /\ req = IdleReq
  /\ respSeq = 0
  /\ last = NoWrite
  /\ events = 0
  /\ query = NoQuery
  /\ tally = NoTally
  /\ db = initDb
  /\ migration = NoMigration

List ==
  /\ query = NoQuery
  /\ \E filters \in ListFilters, pagination \in Paginations :
       query' = [op |-> "list", filters |-> filters, pagination |-> pagination,
                 result |-> list(tweets, filters, pagination)]
  /\ UNCHANGED <<tally, call, db, migration, tweets, config, now, batch, req, respSeq, last, events>>

\* parseFilters: the sort options of the query string; a value outside the
\* enumeration leaves the option unset.
parseSort(orderByParam, orderDirParam) ==
  [orderBy |-> IF orderByParam \in {"score", "createdAt", "updatedAt"} THEN orderByParam ELSE Null,
   orderDir |-> IF orderDirParam \in {"asc", "desc"} THEN orderDirParam ELSE Null]

\* store.list(filters, pagination, sort) as the routes call it: list has the two
\* parameters filters and pagination, a third argument is not read.
listWithSort(tw, filters, pagination, sort) == list(tw, filters, pagination)

NoFilters ==
  [hasModelDecision |-> Null, approved |-> Null, humanDecision |-> Null,
   goldExampleType |-> Null, hasGoldExample |-> Null]

\* GET /api/admin/tweets with orderBy and orderDir, authorized and without filters.
AdminTweets ==
  /\ query = NoQuery
  /\ \E orderByParam \in {Null, "score", "createdAt", "updatedAt", "id"},
        orderDirParam \in {Null, "asc", "desc"},
        pagination \in {[page |-> p, pageSize |-> s] : p \in {1, 2}, s \in {20, 100}} :
       LET sort == parseSort(orderByParam, orderDirParam)
       IN query' = [op |-> "adminTweets", filters |-> NoFilters, pagination |-> pagination,
                    sort |-> sort,
                    result |-> listWithSort(tweets, NoFilters, pagination, sort)]
  /\ UNCHANGED <<tally, call, db, migration, tweets, config, now, batch, req, respSeq, last, events>>

NextList == List \/ AdminTweets

SpecList == InitList /\ [][NextList]_vars

(***************************************************************************)
(* SpecGold: the queries of the gold examples on tables with up to MaxGold *)
(* examples of each type.                                                  *)
(***************************************************************************)
\* A row of a gold table: the text is the row's own (body k) with a length.
GoldRow(k, type, updatedAt, len) ==
  [newRow([body |-> k, len |-> len], OtherUrl, 0) EXCEPT
     !.quote = IF type = "BAD" THEN <<"Rejected">> ELSE <<"Approved">>,
     !.goldExampleType = type,
     !.goldExampleCorrection = IF type = "BAD" THEN "too generic" ELSE Null,
     !.updatedAt = updatedAt]

GoldTimes == 1..3

\* Every table of up to two rows: a gold example has been updated, a row without
\* one may never have been.
SmallGoldTables ==
  LET kinds == {<<type, t>> \in {Null, "GOOD", "BAD"} \X ({NullInt} \cup GoldTimes) :
                  type # Null => t # NullInt}
  IN UNION { [1..n -> kinds] : n \in 0..2 }

\* g GOOD rows, then b BAD rows, then a row without an example; the update times run
\* through the rows in steps of `step`, so that the scan order and the order in time
\* differ.
LargeGoldTables ==
  { [k \in 1..(g + b + 1) |->
       <<IF k <= g THEN "GOOD" ELSE IF k <= g + b THEN "BAD" ELSE Null,
         1 + ((k * step) % (2 * MaxGold + 1))>>] :
    g \in 0..MaxGold, b \in 0..MaxGold, step \in {1, 5, 7} }

GoldTables ==
  { [k \in DOMAIN kinds |->
       GoldRow(k, kinds[k][1], kinds[k][2], IF k % 2 = 0 THEN 250 ELSE 10)] :
    kinds \in SmallGoldTables \cup LargeGoldTables }

InitGold ==
  /\ call = IdleCall
  /\ tweets \in GoldTables
  /\ config = [previousResponseId |-> NullInt]
  /\ now = 0
  /\ batch = IdleBatch
  /\ req = IdleReq
  /\ respSeq = 0
  /\ last = NoWrite
  /\ events = 0
  /\ query = NoQuery
  /\ tally = NoTally
  /\ db = initDb
  /\ migration = NoMigration

GetGoldExamples ==
  /\ query = NoQuery
  /\ \E type \in {Null, "GOOD", "BAD"} :
       query' = [op |-> "getGoldExamples", type |-> type,
                 result |-> getGoldExamplesSeq(tweets, type)]
  /\ UNCHANGED <<tally, call, db, migration, tweets, config, now, batch, req, respSeq, last, events>>

\* The prompt of a judging call: loadFewShotExamples, then buildPromptWithExamples.
ComposePrompt ==
  /\ query = NoQuery
  /\ query' = [op |-> "buildPromptWithExamples",
               examples |-> loadFewShotExamplesSeq(tweets),
               result |-> buildPromptWithExamples(loadFewShotExamplesSeq(tweets))]
  /\ UNCHANGED <<tally, call, db, migration, tweets, config, now, batch, req, respSeq, last, events>>

NextGold == GetGoldExamples \/ ComposePrompt

SpecGold == InitGold /\ [][NextGold]_vars

(***************************************************************************)
(* SpecFreq: the frequency of an author's approved posts, on tables of     *)
(* posts of two authors that a review write may touch before the count.    *)
(* Times are in days.                                                      *)
(***************************************************************************)
\* datetime('now'), in days.
Today == 60

Authors == {"alice", "bob"}

\* A post ingested `age` days ago and judged in the run that ingested it: approved by
\* the model, rejected by the model and approved by a human the same day, rejected,
\* or not judged.
FreqRow(author, state, age) ==
  [newRow("kaspa", OtherUrl, Today - age) EXCEPT
     !.authorUsername = author,
     !.approved = IF state = "approved" THEN 1 ELSE IF state = "unjudged" THEN NullInt ELSE 0,
     !.humanDecision = IF state = "human" THEN "APPROVED" ELSE Null,
     !.updatedAt = IF state = "unjudged" THEN NullInt ELSE Today - age]

FreqStates == {"approved", "human", "rejected", "unjudged"}

FreqAges == {3, 5, 20, 40}

\* Every table of up to two posts, and every table of three posts of one author.
FreqTables ==
  LET kinds == Authors \X FreqStates \X FreqAges
      alice == {k \in kinds : k[1] = "alice"}
  IN { [k \in DOMAIN t |-> FreqRow(t[k][1], t[k][2], t[k][3])] :
       t \in UNION { [1..n -> kinds] : n \in 0..2 } \cup [1..3 -> alice] }

InitFreq ==
  /\ call = IdleCall
  /\ tweets \in FreqTables
  /\ config = [previousResponseId |-> NullInt]
  /\ now = Today
  /\ batch = IdleBatch
  /\ req = IdleReq
  /\ respSeq = 0
  /\ last = NoWrite
  /\ events = 0
  /\ query = NoQuery
  /\ tally = NoTally
  /\ db = initDb
  /\ migration = NoMigration

\* A review write on a stored post, once: a human decision or a gold example.
FreqUpdateHumanDecision ==
  /\ query = NoQuery /\ events = 0
  /\ \E id \in DOMAIN tweets : \E decision \in {"APPROVED", "REJECTED"} :
       /\ tweets' = updateHumanDecision(tweets, id, decision, now)
       /\ last' = Write("updateHumanDecision", id)
  /\ events' = events + 1
  /\ UNCHANGED <<tally, call, db, migration, config, now, batch, req, respSeq, query>>

FreqSetGoldExample ==
  /\ query = NoQuery /\ events = 0
  /\ \E id \in DOMAIN tweets :
       /\ tweets' = setGoldExample(tweets, id, "GOOD", Null, now)
       /\ last' = Write("setGoldExample", id)
  /\ events' = events + 1
  /\ UNCHANGED <<tally, call, db, migration, config, now, batch, req, respSeq, query>>

GetAuthorFrequency ==
  /\ query = NoQuery
  /\ \E authorUsername \in Authors :
       query' = [op |-> "getAuthorFrequency", authorUsername |-> authorUsername,
                 result |-> getAuthorFrequency(tweets, authorUsername, now)]
  /\ UNCHANGED <<tally, call, db, migration, tweets, config, now, batch, req, respSeq, last, events>>

ComputeFrequencyState ==
  /\ query = NoQuery
  /\ \E postsLast7Days, postsLast30Days \in 0..MaxPosts :
       query' = [op |-> "computeFrequencyState",
                 postsLast7Days |-> postsLast7Days, postsLast30Days |-> postsLast30Days,
                 result |-> computeFrequencyState(postsLast7Days, postsLast30Days)]
  /\ UNCHANGED <<tally, call, db, migration, tweets, config, now, batch, req, respSeq, last, events>>

NextFreq ==
  \/ FreqUpdateHumanDecision
  \/ FreqSetGoldExample
  \/ GetAuthorFrequency
  \/ ComputeFrequencyState

SpecFreq == InitFreq /\ [][NextFreq]_vars

(***************************************************************************)
(* SpecMigrations: applyMigrations, run up to MaxApplies times on a         *)
(* database that starts empty or with a tweets table of an earlier schema. *)
(***************************************************************************)
\* The tweets tables of earlier schemas: the columns of the first migration as it
\* was, and any of the columns added since; the rows hold a value in each column.
LegacyTables ==
  { [exists |-> TRUE,
     columns |-> {"id", "text", "quote", "url", "approved", "createdAt"} \cup added,
     approvedNotNull |-> approvedNotNull, quoteDefault |-> quoteDefault,
     stored |-> {"id", "text", "quote", "url", "approved", "createdAt"} \cup added] :
    added \in SUBSET {"score", "humanDecision", "updatedAt", "goldExampleType",
                      "goldExampleCorrection", "authorUsername"},
    approvedNotNull \in BOOLEAN, quoteDefault \in BOOLEAN }

StartDbs ==
  {EmptyDb} \cup { [EmptyDb EXCEPT !.tweets = t, !.indexes = {"idx_tweets_id"}] : t \in LegacyTables }

\* Schema evolution is append-only: a directory holds the first n migrations.
MigrationDirs ==
  { {file \in MigrationFiles : fileOrder(file) <= n} \cup {Readme} : n \in {0, 1, 2, 3, 5, 7} }

InitMigrations ==
  /\ call = IdleCall
  /\ tweets = [id \in Ids |-> NoRow]
  /\ config = [previousResponseId |-> NullInt]
  /\ now = 0
  /\ batch = IdleBatch
  /\ req = IdleReq
  /\ respSeq = 0
  /\ last = NoWrite
  /\ events = 0
  /\ query = NoQuery
  /\ tally = NoTally
  /\ db \in StartDbs
  /\ \E dir \in MigrationDirs : migration = [NoMigration EXCEPT !.migrationsDir = dir, !.start = db]

ApplyMigrations ==
  /\ migration.runs < MaxApplies
  /\ LET r == applyMigrations(db, migration.migrationsDir)
     IN /\ db' = r.db
        /\ migration' = [migration EXCEPT
                           !.runs = @ + 1, !.before = db, !.previous = migration.result,
                           !.result = [appliedCount |-> r.appliedCount, total |-> r.total,
                                       writes |-> r.writes, thrown |-> r.thrown,
                                       executed |-> r.executed]]
  /\ UNCHANGED <<tally, call, tweets, config, now, batch, req, respSeq, last, events, query>>

NextMigrations == ApplyMigrations

SpecMigrations == InitMigrations /\ [][NextMigrations]_vars

(***************************************************************************)
(* SpecRun: batch runs alone, one after another, with the count of each    *)
(* run kept. An oracle call that is under way returns or fails.            *)
(***************************************************************************)
InitRun ==
  /\ call = IdleCall
  /\ tweets = [id \in Ids |-> NoRow]
  /\ config = [previousResponseId |-> NullInt]
  /\ now = 0
  /\ batch = IdleBatch
  /\ req = IdleReq
  /\ respSeq = 0
  /\ last = NoWrite
  /\ events = 0
  /\ query = NoQuery
  /\ db = initDb
  /\ migration = NoMigration
  /\ tally = [NoTally EXCEPT !.on = TRUE]

NextRun ==
  \/ BatchStart
  \/ BatchFetchFails
  \/ BatchSaveRaw
  \/ BatchPrepare
  \/ BatchOracleReturns
  \/ BatchOracleThrows
  \/ BatchExit

\* Every oracle call eventually returns or fails.
OracleAnswers == WF_vars(BatchOracleReturns \/ BatchOracleThrows)

SpecRun == InitRun /\ [][NextRun]_vars /\ OracleAnswers

(***************************************************************************)
(* SpecStore: the operations of the store called one after another with    *)
(* any id and any value, on tables where an id may have no row. A          *)
(* statement that would leave a row outside a CHECK of the table throws    *)
(* and writes nothing.                                                     *)
(***************************************************************************)
\* CHECK(humanDecision IN ('APPROVED','REJECTED')), CHECK(goldExampleType IN
\* ('GOOD','BAD')): NULL passes a CHECK.
violatesCheck(row) ==
  \/ row.humanDecision \notin {Null, "APPROVED", "REJECTED"}
  \/ row.goldExampleType \notin {Null, "GOOD", "BAD"}

\* What a write statement leaves and whether it threw.
statement(tw, after) ==
  IF \E id \in DOMAIN after : after[id] # NoRow /\ violatesCheck(after[id])
  THEN [tweets |-> tw, thrown |-> TRUE]
  ELSE [tweets |-> after, thrown |-> FALSE]

StoreRows ==
  {NoRow, newRow("a", OtherUrl, 0),
   [newRow("a", OtherUrl, 0) EXCEPT !.quote = <<"Approved">>, !.approved = 1,
                                    !.score = 100, !.updatedAt = 0]}

InitStore ==
  /\ call = IdleCall
  /\ tweets \in [Ids -> StoreRows]
  /\ config = [previousResponseId |-> NullInt]
  /\ now = 1
  /\ batch = IdleBatch
  /\ req = IdleReq
  /\ respSeq = 0
  /\ last = NoWrite
  /\ events = 0
  /\ query = NoQuery
  /\ tally = NoTally
  /\ db = initDb
  /\ migration = NoMigration

\* store.get(id), store.has(id), store.hasModelDecision(id)
StoreRead ==
  /\ events < MaxEvents
  /\ \E id \in Ids :
       \/ query' = [op |-> "get", id |-> id, thrown |-> FALSE,
                    result |-> [row |-> get(tweets, id), found |-> get(tweets, id) # NoRow]]
       \/ query' = [op |-> "has", id |-> id, thrown |-> FALSE,
                    result |-> [row |-> NoRow, found |-> has(tweets, id)]]
       \/ query' = [op |-> "hasModelDecision", id |-> id, thrown |-> FALSE,
                    result |-> [row |-> NoRow, found |-> hasModelDecision(tweets, id)]]
  /\ events' = events + 1
  /\ last' = NoWrite
  /\ UNCHANGED <<tally, call, db, migration, tweets, config, now, batch, req, respSeq>>

\* store.updateHumanDecision(id, decision)
StoreUpdateHumanDecision ==
  /\ events < MaxEvents
  /\ \E id \in Ids, decision \in {Null, "APPROVED", "REJECTED", "MAYBE"} :
       LET s == statement(tweets, updateHumanDecision(tweets, id, decision, now))
       IN /\ tweets' = s.tweets
          /\ query' = [op |-> "updateHumanDecision", id |-> id, thrown |-> s.thrown,
                       result |-> [row |-> NoRow, found |-> FALSE]]
          /\ last' = Write("updateHumanDecision", id)
  /\ events' = events + 1
  /\ UNCHANGED <<tally, call, db, migration, config, now, batch, req, respSeq>>

\* store.setGoldExample(id, type, correction)
StoreSetGoldExample ==
  /\ events < MaxEvents
  /\ \E id \in Ids, type \in {Null, "GOOD", "BAD", "UGLY"}, correction \in {Null, "too generic"} :
       LET s == statement(tweets, setGoldExample(tweets, id, type, correction, now))
       IN /\ tweets' = s.tweets
          /\ query' = [op |-> "setGoldExample", id |-> id, thrown |-> s.thrown,
                       result |-> [row |-> NoRow, found |-> FALSE]]
          /\ last' = Write("setGoldExample", id)
  /\ events' = events + 1
  /\ UNCHANGED <<tally, call, db, migration, config, now, batch, req, respSeq>>

NextStore == StoreRead \/ StoreUpdateHumanDecision \/ StoreSetGoldExample

SpecStore == InitStore /\ [][NextStore]_vars

(***************************************************************************)
(* Claims about the decision store.                                         *)
(***************************************************************************)
Rows == {id \in Ids : tweets[id] # NoRow}

\* The step that led here wrote, with operation `op`, a row that existed before.
Rewrote(op) == last.op = op /\ last.before # NoRow

\* C1: saveRaw on a row that exists changes at most text, url and authorUsername:
\* quote, approved, score, humanDecision, goldExampleType, goldExampleCorrection,
\* createdAt (and updatedAt) are after the call what they were before it.
C1_SaveRawFrame ==
  Rewrote("saveRaw") =>
    LET row == tweets[last.id]
    IN /\ row.quote = last.before.quote
       /\ row.approved = last.before.approved
       /\ row.score = last.before.score
       /\ row.humanDecision = last.before.humanDecision
       /\ row.goldExampleType = last.before.goldExampleType
       /\ row.goldExampleCorrection = last.before.goldExampleCorrection
       /\ row.createdAt = last.before.createdAt
       /\ row.updatedAt = last.before.updatedAt

\* A judged row with a human decision and a gold example was ingested again with
\* another text.
C1_Witness ==
  /\ Rewrote("saveRaw")
  /\ last.before.approved # NullInt
  /\ last.before.humanDecision # Null
  /\ last.before.goldExampleType # Null
  /\ tweets[last.id].text # last.before.text

\* C2: in every state reached through the batch loop, the process endpoint and the
\* re-evaluate endpoint, a row whose approved is true has an integer score in 0..100,
\* and a row whose approved is false or unset has score 0.
C2_ScoreInvariant ==
  \A id \in Rows :
    /\ approvedOf(tweets[id]) = "true" => tweets[id].score \in 0..100
    /\ approvedOf(tweets[id]) # "true" => tweets[id].score = 0

\* One row is approved with score 100, the other is rejected, and the latest step
\* saved a decision.
C2_Witness ==
  /\ last.op = "save"
  /\ \E id \in Rows : approvedOf(tweets[id]) = "true" /\ tweets[id].score = 100
  /\ \E id \in Rows : approvedOf(tweets[id]) = "false" /\ tweets[id].score = 0

\* C3: save on a row that exists leaves humanDecision, goldExampleType,
\* goldExampleCorrection, authorUsername and createdAt as they were.
C3_SaveFrame ==
  Rewrote("save") =>
    LET row == tweets[last.id]
    IN /\ row.humanDecision = last.before.humanDecision
       /\ row.goldExampleType = last.before.goldExampleType
       /\ row.goldExampleCorrection = last.before.goldExampleCorrection
       /\ row.authorUsername = last.before.authorUsername
       /\ row.createdAt = last.before.createdAt

\* The decision of the judge was saved over a row that had a human decision, a gold
\* example with its correction and an author.
C3_Witness ==
  /\ Rewrote("save")
  /\ last.before.humanDecision # Null
  /\ last.before.goldExampleType = "BAD"
  /\ last.before.authorUsername # Null
  /\ tweets[last.id].approved # last.before.approved

\* C4: every row whose goldExampleType is BAD has a goldExampleCorrection that is
\* neither null nor empty, and every row whose goldExampleType is GOOD or unset has
\* goldExampleCorrection null.
C4_GoldCorrection ==
  \A id \in Rows :
    /\ tweets[id].goldExampleType = "BAD" =>
          tweets[id].goldExampleCorrection # Null /\ tweets[id].goldExampleCorrection # ""
    /\ tweets[id].goldExampleType # "BAD" => tweets[id].goldExampleCorrection = Null

\* A BAD example with its correction was set to GOOD.
C4_Witness ==
  /\ Rewrote("setGoldExample")
  /\ last.before.goldExampleType = "BAD"
  /\ tweets[last.id].goldExampleType = "GOOD"

(***************************************************************************)
(* Claims about the judge client.                                           *)
(***************************************************************************)
Evaluated == call.fn = "askTweetDecision" /\ call.pc = "done" /\ call.calls > 0 /\ call.outcome.kind # "thrown"

IsMalformed(outcome) == outcome.kind = "MalformedResponseError"

Trimmed(text) ==
  IF text = NoText THEN <<>>
  ELSE LET keep == {i \in 1..Len(text) : text[i] # "WS"}
       IN IF keep = {} THEN <<>>
          ELSE SubSeq(text, CHOOSE i \in keep : \A j \in keep : i <= j,
                            CHOOSE i \in keep : \A j \in keep : i >= j)

HasMarker(text) == text # <<>> /\ text[1] \in {"Approved", "Rejected"}

\* C5 as stated: an output that is empty after trimming, or that itself (as the
\* oracle sent it) starts with neither marker, is refused with MalformedResponse
\* carrying its text.
C5_AsStated ==
  (Evaluated /\ (Trimmed(call.response) = <<>> \/ ~HasMarker(call.response)))
    => (IsMalformed(call.outcome) /\ call.outcome.rawResponse = Trimmed(call.response))

\* C5 amended: an output whose trimmed text is empty or starts with neither
\* "Approved" nor "Rejected" (case-sensitive) yields no result: evaluate fails with
\* MalformedResponse carrying the trimmed text.
C5_MalformedWithoutMarker ==
  (Evaluated /\ (Trimmed(call.response) = <<>> \/ ~HasMarker(Trimmed(call.response))))
    => (IsMalformed(call.outcome) /\ call.outcome.rawResponse = Trimmed(call.response))

\* The output "approved ..." (a word that is no marker, as in "Maybe?") was refused.
C5_Witness ==
  /\ Evaluated
  /\ call.response # NoText /\ Len(call.response) >= 2
  /\ call.response[1] = "approved" /\ call.response[2] = "Percentile:"
  /\ IsMalformed(call.outcome)

RECURSIVE Pow10(_)
Pow10(n) == IF n = 0 THEN 1 ELSE 10 * Pow10(n - 1)

RECURSIVE Decimal(_, _, _)
Decimal(text, from, to) ==
  IF from > to THEN 0
  ELSE DigitValue(text[from]) * Pow10(to - from) + Decimal(text, from + 1, to)

\* The "Percentile: <integer>" fields of a text, as <<first digit, last digit>>: the
\* field name (in either spelling), optional white space, then all the digits there.
PercentileFields(text) ==
  { f \in (1..Len(text)) \X (1..Len(text)) :
      /\ f[1] <= f[2]
      /\ \A k \in f[1]..f[2] : text[k] \in Digits
      /\ f[2] = Len(text) \/ text[f[2] + 1] \notin Digits
      /\ \E n \in 1..(f[1] - 1) :
            /\ text[n] \in {"Percentile:", "percentile:"}
            /\ \A k \in (n + 1)..(f[1] - 1) : text[k] = "WS" }

FieldValues(text) == { Decimal(text, f[1], f[2]) : f \in PercentileFields(text) }

StartsApproved == Evaluated /\ HasMarker(Trimmed(call.response)) /\ Trimmed(call.response)[1] = "Approved"

StartsRejected == Evaluated /\ HasMarker(Trimmed(call.response)) /\ Trimmed(call.response)[1] = "Rejected"

\* C6: for an output that starts with "Approved", evaluate returns a result only if
\* the output holds a Percentile field with an integer in 0..100, and the score is
\* that integer; with no field, or with no field in range, it fails with
\* MalformedResponse.
C6_ApprovedNeedsPercentile ==
  StartsApproved =>
    /\ call.outcome.kind = "result" =>
          /\ call.outcome.approved
          /\ call.outcome.score \in 0..100
          /\ call.outcome.score \in FieldValues(call.response)
    /\ (FieldValues(call.response) \cap (0..100) = {}) => IsMalformed(call.outcome)

\* "Approved ... Percentile: 150" was refused.
C6_Witness ==
  /\ StartsApproved
  /\ FieldValues(call.response) = {150}
  /\ IsMalformed(call.outcome)

\* C7: for an output that starts with "Rejected", evaluate returns approved = false
\* and score = 0 whatever the rest of the output holds.
C7_RejectedScoresZero ==
  StartsRejected =>
    /\ call.outcome.kind = "result"
    /\ call.outcome.approved = FALSE
    /\ call.outcome.score = 0

\* "Rejected ... Percentile: 50" was evaluated.
C7_Witness ==
  /\ StartsRejected
  /\ 50 \in FieldValues(call.response)
  /\ call.outcome.kind = "result"

\* C8: one logical call through withRetry invokes the operation at most 3 times.
C8_AtMostThreeAttempts == call.calls <= 3

\* Three failed invocations, after which the call has thrown.
C8_Witness == call.calls = 3 /\ call.pc = "done" /\ call.outcome.kind = "thrown"

RateLimitSignal(error) == error.api /\ error.status = 429

QuotaSignal(error) ==
  /\ error.api
  /\ \/ error.code \in {"insufficient_quota", "billing_hard_limit_reached"}
     \/ error.type \in {"insufficient_quota", "billing_hard_limit_reached"}
     \/ error.message # {}

Transient(error) == RateLimitSignal(error) /\ ~QuotaSignal(error)

\* C9: withRetry (openaiRetry.ts) invokes the operation again only after a rate-limit
\* error that is no quota/billing error; any other error is thrown from the attempt
\* on which it occurs, with no delay after it and no further attempt.
C9_RetryOnlyTransient ==
  call.fn = "withRetry" =>
    /\ (call.pc = "backoff" \/ (call.pc = "attempt" /\ call.attempt > 1)) => Transient(call.lastError)
    /\ (call.lastError # NoError /\ ~Transient(call.lastError)) =>
          /\ call.pc = "done"
          /\ call.outcome = Thrown(call.lastError)
          /\ call.calls = call.attempt
          /\ call.delays = call.calls - 1

\* A quota error with status 429 on the second attempt was thrown at once.
C9_Witness ==
  /\ call.fn = "withRetry" /\ call.pc = "done"
  /\ call.lastError # NoError
  /\ RateLimitSignal(call.lastError) /\ QuotaSignal(call.lastError)
  /\ call.calls = 2 /\ call.delays = 1

\* C10: askTweetDecision and quickFilterTweet never retry a quota/billing error: the
\* error of that attempt is thrown with no delay after it and no further call.
C10_QuotaNeverRetried ==
  (call.fn \in {"askTweetDecision", "quickFilterTweet"}
     /\ call.lastError # NoError
     /\ RateLimitSignal(call.lastError) /\ QuotaSignal(call.lastError)) =>
    /\ call.pc = "done"
    /\ call.outcome = Thrown(call.lastError)
    /\ call.calls = call.attempt
    /\ call.delays = call.calls - 1

(***************************************************************************)
(* Claims about the retries of one logical call.                           *)
(***************************************************************************)
\* The operation has returned a value.
Succeeded == call.response # NoText

\* C11: when the operation fails k times (k in 0..2) with a transient rate-limit error
\* and then succeeds, the call returns that value after k + 1 attempts and k backoff
\* delays, one delay after each failed attempt: a transient failure before the third
\* attempt is followed by a delay and the next attempt, and a success ends the call
\* with its value.
C11_SuccessAfterTransient ==
  /\ Succeeded =>
        /\ call.pc = "done"
        /\ call.outcome.kind # "thrown"
        /\ call.calls = call.attempt
        /\ call.delays = call.calls - 1
        /\ call.fn = "withRetry" => (call.outcome.kind = "returned" /\ call.outcome.output_text = call.response)
  /\ (~Succeeded /\ call.lastError # NoError /\ Transient(call.lastError) /\ call.calls < 3) =>
        \/ call.pc = "backoff" /\ call.attempt = call.calls /\ call.delays = call.calls
        \/ call.pc = "attempt" /\ call.attempt = call.calls + 1 /\ call.delays = call.calls

\* withRetry returned the value of the third attempt after two delays.
C11_Witness ==
  /\ call.fn = "withRetry" /\ Succeeded
  /\ call.calls = 3 /\ call.delays = 2
  /\ Transient(call.lastError)
  /\ call.outcome.kind = "returned"

\* C12: when all 3 attempts of a call fail with transient rate-limit errors, the call
\* throws the error of the third attempt after exactly 2 backoff delays, none after the
\* last attempt, and returns no value.
C12_ExhaustionRethrowsLast ==
  (call.calls = 3 /\ ~Succeeded /\ Transient(call.lastError)) =>
    /\ call.pc = "done"
    /\ call.outcome = Thrown(call.lastError)
    /\ call.attempt = 3
    /\ call.delays = 2

\* Three transient failures of withRetry.
C12_Witness ==
  /\ call.fn = "withRetry"
  /\ call.calls = 3 /\ ~Succeeded /\ Transient(call.lastError)
  /\ call.outcome.kind = "thrown"

\* C13: format errors are never retried: a call ends in MalformedResponseError in the
\* step in which the oracle returns its one response, and from then on the call issues
\* no oracle call (it does not change any more).
C13_MalformedNotRetried ==
  [][/\ (~IsMalformed(call.outcome) /\ IsMalformed(call'.outcome)) =>
          /\ call.pc = "attempt" /\ call'.pc = "done"
          /\ call'.calls = call.calls + 1
          /\ call'.delays = call.delays
          /\ call'.response # NoText
     /\ IsMalformed(call.outcome) => call' = call]_vars

\* askTweetDecision was rate limited once, then got a response without a marker.
C13_Witness ==
  /\ call.fn = "askTweetDecision"
  /\ IsMalformed(call.outcome)
  /\ call.calls = 2 /\ call.delays = 1
  /\ call.pc = "done"


(***************************************************************************)
(* Claims about the batch run.                                             *)
(***************************************************************************)

InBatch(id) == \E k \in 1..Len(batch.tweets) : batch.tweets[k].id = id

\* C14: in a batch run a judge call is under way only after the raw upsert of every
\* tweet of the batch, and from then to the end of the run, however judging ended,
\* every tweet of the batch has a row in the store.
C14_IngestBeforeJudging ==
  /\ batch.call # IdleCall => (batch.pc = "judge" /\ batch.k = Len(batch.tweets) + 1)
  /\ batch.pc \in {"judge", "done"} => \A id \in Ids : InBatch(id) => tweets[id] # NoRow

\* A run of two tweets that a provider error ended before the second was judged.
C14_Witness ==
  /\ batch.pc = "done" /\ batch.exitCode = 1
  /\ last.outcome.kind = "thrown"
  /\ Len(batch.tweets) = 2
  /\ \A id \in Ids : tweets[id] # NoRow
  /\ \E id \in Ids : InBatch(id) /\ approvedOf(tweets[id]) = Null

BatchStep == batch.pc = "judge" /\ batch' # batch

\* C15: when the judge call for a tweet of the batch ends with a
\* MalformedResponseError, the step writes no row (no decision is saved for the
\* tweet), the exit code stays 0, and the loop goes on: the next tweet to process is
\* under judgment, or the list is finished.
C15_MalformedSkipsTweet ==
  [][(BatchStep /\ IsMalformed(last'.outcome)) =>
        /\ tweets' = tweets
        /\ last'.op = Null
        /\ batch'.exitCode = 0
        /\ batch'.i = batch.i + 1
        /\ IF batch.i < Len(batch.toProcess)
           THEN batch'.pc = "judge" /\ batch'.call = callStart("askTweetDecision")
           ELSE batch'.pc = "done"]_vars

\* The first of two tweets was skipped for a malformed answer, is still unjudged, and
\* the second is under judgment.
C15_Witness ==
  /\ IsMalformed(last.outcome) /\ last.status = 0
  /\ batch.pc = "judge" /\ batch.i = 2 /\ batch.exitCode = 0
  /\ batch.call = callStart("askTweetDecision")
  /\ approvedOf(tweets[batch.toProcess[1].id]) = Null

\* C16: when the judge call for a tweet of the batch ends with an error that is no
\* MalformedResponseError, the run ends with exit code 1: no row is written, no judge
\* call is under way, and from the end of the run no call is issued and no row is
\* written by it.
C16_ErrorAbortsBatch ==
  [][/\ (BatchStep /\ last'.outcome.kind = "thrown") =>
          /\ batch'.pc = "done" /\ batch'.exitCode = 1
          /\ batch'.call = IdleCall /\ batch'.i = batch.i
          /\ tweets' = tweets /\ last'.op = Null
     /\ (batch.pc = "done" /\ batch' # batch) =>
          /\ batch'.pc = "idle" /\ batch'.call = IdleCall
          /\ tweets' = tweets]_vars

\* The quota error ended the run at the second of two tweets: the first has its
\* decision, the second has none.
C16_Witness ==
  /\ last.outcome.kind = "thrown" /\ last.outcome.error.api /\ last.status = 0
  /\ batch.pc = "done" /\ batch.exitCode = 1
  /\ batch.i = 2 /\ Len(batch.toProcess) = 2
  /\ approvedOf(tweets[batch.toProcess[1].id]) # Null
  /\ approvedOf(tweets[batch.toProcess[2].id]) = Null

(***************************************************************************)
(* Claims about the conversation handle and the filter of the batch.       *)
(***************************************************************************)

Handle == getConfig(config, RESPONSE_ID_KEY)

\* C17: in the step in which a judge call returns a result (batch loop, process,
\* re-evaluation) the config holds the handle of that call under previousResponseId:
\* whenever a decision is saved, and whenever the batch has its next call under way,
\* the handle of the latest result is in the store, also when the process died
\* before the save; and the handle changes in no other step.
C17_HandlePersisted ==
  [][/\ (respSeq' # respSeq /\ last'.outcome.kind = "result") =>
          /\ Handle' = respSeq'
          /\ last'.outcome.responseId = respSeq'
     /\ last'.op = "save" => Handle' = last'.outcome.responseId
     /\ Handle' # Handle => (respSeq' # respSeq /\ last'.outcome.kind = "result")]_vars

\* The batch died after the second result of the system came back: its handle is in
\* the store and the decision is not.
C17_Witness ==
  /\ last.outcome.kind = "result" /\ last.op = Null /\ last.status = 0
  /\ batch.pc = "idle"
  /\ respSeq = 2 /\ Handle = 2

InToProcess(b, id) == \E k \in 1..Len(b.toProcess) : b.toProcess[k].id = id

\* C18: the filter of the batch keeps exactly the tweets of the batch that are not by
\* kaspaunchained and have no model decision at that moment; the list does not change
\* while the run judges, and a step of the judging run changes no row but that of a
\* tweet of the list: a tweet left out is not judged by the batch and keeps its
\* approved, score and quote, and it has its row from the raw upsert.
C18_FilteredNotJudged ==
  [][/\ (batch.pc = "ingest" /\ batch'.pc # "ingest") =>
          \A id \in Ids :
            InToProcess(batch', id) <=>
              \E k \in 1..Len(batch.tweets) :
                 /\ batch.tweets[k].id = id
                 /\ batch.tweets[k].author # "kaspaunchained"
                 /\ approvedOf(tweets[id]) = Null
     /\ (batch.pc = "judge" /\ batch' # batch) =>
          /\ batch'.pc # "idle" => batch'.toProcess = batch.toProcess
          /\ \A id \in Ids :
               ~InToProcess(batch, id) =>
                  /\ tweets'[id] = tweets[id]
                  /\ InBatch(id) => tweets[id] # NoRow]_vars

\* A run has saved the decision of its one tweet to process; the other tweet of the
\* batch was judged before and was left out.
C18_Witness ==
  /\ batch.pc = "done" /\ last.op = "save" /\ last.status = 0
  /\ Len(batch.tweets) = 2 /\ Len(batch.toProcess) = 1
  /\ \E id \in Ids : InBatch(id) /\ ~InToProcess(batch, id) /\ approvedOf(tweets[id]) # Null

(***************************************************************************)
(* Claims about the model decision of a tweet.                             *)
(***************************************************************************)

\* The model decision a tweet has in the store: Null without a row or a decision.
ModelState(id) == IF tweets[id] = NoRow THEN Null ELSE approvedOf(tweets[id])

Saved(id) == last'.op = "save" /\ last'.id = id

Admitted == req.pc = "idle" /\ req'.pc = "judge"

\* The approved column never returns to unset.
NeverUnset ==
  \A id \in Ids : ModelState(id) # Null => ModelState(id)' # Null

\* process reaches the judge only for a tweet without a model decision, reeval only
\* for a tweet that is approved.
RefusedUnlessAdmissible ==
  Admitted => /\ req'.kind = "process" => ModelState(req'.id) = Null
              /\ req'.kind = "reeval" => ModelState(req'.id) = "true"

\* C19: the model state of a tweet moves only from unjudged to judged by a judge call
\* that returned a result, and from approved to re-evaluated: approved never returns
\* to unset, no decision is saved over a rejected tweet, a decision is saved over an
\* approved tweet only by its re-evaluation, process is refused for a tweet with a
\* model decision and reeval for a tweet that is not approved.
C19_ModelStateMachine ==
  [][/\ NeverUnset
     /\ RefusedUnlessAdmissible
     /\ \A id \in Ids :
          /\ ModelState(id) = "false" => (~Saved(id) /\ ModelState(id)' = "false")
          /\ (ModelState(id) = "true" /\ Saved(id)) =>
                (req.pc = "judge" /\ req.kind = "reeval" /\ req.id = id /\ req'.pc = "idle")
          /\ ModelState(id)' # ModelState(id) => Saved(id)]_vars

ReevalStep == req.pc = "judge" /\ req.kind = "reeval" /\ req' # req

\* C20: when the judge call of a re-evaluation returns a rejection, the handler
\* answers 500 and writes no row: the record of the tweet, with its quote, approved,
\* score and updatedAt, is after the answer what it was before it; a re-evaluation
\* writes a row only when it saves an approval, and answers 200 then.
C20_RejectedReevalKeepsRecord ==
  [][ReevalStep =>
       /\ (last'.outcome.kind = "result" /\ ~last'.outcome.approved) =>
             /\ last'.status = 500
             /\ last'.op = Null
             /\ tweets' = tweets
             /\ req'.pc = "idle"
       /\ tweets' # tweets =>
             /\ last'.op = "save" /\ last'.id = req.id
             /\ last'.outcome.approved
             /\ last'.status = 200
             /\ approvedOf(tweets'[req.id]) = "true"]_vars

\* A re-evaluation has come back rejected and was answered 500: the tweet is still
\* approved and the handle of the call is in the config.
C20_Witness ==
  /\ last.status = 500 /\ last.op = Null
  /\ last.outcome.kind = "result" /\ ~last.outcome.approved
  /\ Handle = last.outcome.responseId
  /\ req.pc = "idle"
  /\ \E id \in Ids : ModelState(id) = "true"

(***************************************************************************)
(* Claims about the review writes during a batch run.                      *)
(***************************************************************************)

HumanFields(row) == <<row.humanDecision, row.goldExampleType, row.goldExampleCorrection>>

ModelFields(row) == <<row.quote, row.approved, row.score>>

ReviewWrite == last'.op \in {"updateHumanDecision", "setGoldExample"}

\* C21: no step of a batch run changes the humanDecision, goldExampleType or
\* goldExampleCorrection of a row, wherever in the run the review write came; and a
\* review write changes no quote, approved or score and no other row: in every
\* interleaving the row holds the human-written fields and the model-written ones.
C21_ReviewWritesKept ==
  [][/\ batch' # batch =>
          \A id \in Rows : HumanFields(tweets'[id]) = HumanFields(tweets[id])
     /\ ReviewWrite =>
          /\ batch' = batch
          /\ \A id \in Rows :
               /\ ModelFields(tweets'[id]) = ModelFields(tweets[id])
               /\ id # last'.id => tweets'[id] = tweets[id]
          /\ (last'.op = "updateHumanDecision" /\ last'.id \in Rows) =>
               tweets'[last'.id].humanDecision \in {"APPROVED", "REJECTED"}]_vars

\* In its first run the batch saved the decision of a tweet that had got a human
\* decision and a gold example since the run ingested it: the row holds them all.
C21_Witness ==
  /\ batch.runs = 1 /\ last.op = "save" /\ last.status = 0
  /\ last.before.approved = NullInt
  /\ last.before.humanDecision # Null /\ last.before.goldExampleType # Null
  /\ tweets[last.id].approved # NullInt
  /\ HumanFields(tweets[last.id]) = HumanFields(last.before)

(***************************************************************************)
(* Claims about list.                                                      *)
(***************************************************************************)

Listed == query.op = "list"

Range(s) == {s[i] : i \in 1..Len(s)}

\* The row satisfies every filter that is given.
Satisfies(row, f) ==
  /\ f.hasModelDecision = "true" => approvedOf(row) # Null
  /\ f.hasModelDecision = "false" => approvedOf(row) = Null
  /\ f.approved # Null => approvedOf(row) = f.approved
  /\ f.humanDecision \in {"APPROVED", "REJECTED"} => row.humanDecision = f.humanDecision
  /\ f.humanDecision = "UNSET" => row.humanDecision = Null
  /\ f.goldExampleType # Null => row.goldExampleType = f.goldExampleType
  /\ f.hasGoldExample = "true" => row.goldExampleType # Null
  /\ f.hasGoldExample = "false" => row.goldExampleType = Null

Satisfying(f) == {id \in DOMAIN tweets : Satisfies(tweets[id], f)}

\* The filters list consults: hasGoldExample only when no goldExampleType is given.
Consulted(f) ==
  [f EXCEPT !.hasGoldExample = IF f.goldExampleType # Null THEN Null ELSE @]

\* The query asked for the first page.
FirstPage == Listed /\ query.result.page = 1

\* The rows of all the pages of the query.
AllPages ==
  UNION { Range(list(tweets, query.filters,
                     [page |-> p, pageSize |-> query.result.pageSize]).tweets) :
          p \in 1..((query.result.total \div query.result.pageSize) + 1) }

\* C23 as stated: the rows list counts and returns are the rows that satisfy every
\* filter that is given, for every combination of the five filters.
C23_AsStated ==
  Listed =>
    /\ query.result.total = Cardinality(Satisfying(query.filters))
    /\ Range(query.result.tweets) \subseteq Satisfying(query.filters)
    /\ FirstPage => AllPages = Satisfying(query.filters)

\* C23: the rows list counts in total and returns over all its pages are the rows
\* that satisfy every given filter at once, where hasGoldExample counts as given only
\* when no goldExampleType is given.
C23_FiltersConjunctive ==
  Listed =>
    /\ query.result.total = Cardinality(Satisfying(Consulted(query.filters)))
    /\ Range(query.result.tweets) \subseteq Satisfying(Consulted(query.filters))
    /\ FirstPage => AllPages = Satisfying(Consulted(query.filters))

\* All five filters are given, goldExampleType with the flag hasGoldExample = false
\* against it, and the page holds the one row of 27 that the first four select.
C23_Witness ==
  /\ FirstPage
  /\ Cardinality(DOMAIN tweets) = 27
  /\ query.filters = [hasModelDecision |-> "true", approved |-> "true",
                      humanDecision |-> "UNSET", goldExampleType |-> "GOOD",
                      hasGoldExample |-> "false"]
  /\ query.result.total = 1 /\ Len(query.result.tweets) = 1

\* The page and the page size the query asked for: page 1 and 20 rows by default, the
\* size clamped to 1..100.
AskedPage == IF "page" \in DOMAIN query.pagination THEN query.pagination.page ELSE 1

AskedSize ==
  LET s == IF "pageSize" \in DOMAIN query.pagination THEN query.pagination.pageSize ELSE 20
  IN IF s < 1 THEN 1 ELSE IF s > 100 THEN 100 ELSE s

\* C22: list with page p >= 1 and page size s over N rows matching the filters
\* returns min(s, max(0, N - (p-1)*s)) rows and total = N, on every page, a page
\* beyond the last included.
C22_PageCount ==
  (Listed /\ AskedPage >= 1) =>
    LET N == Cardinality(Satisfying(Consulted(query.filters)))
    IN /\ query.result.total = N
       /\ Len(query.result.tweets) = min(AskedSize, max(0, N - (AskedPage - 1) * AskedSize))
       /\ query.result.page = AskedPage /\ query.result.pageSize = AskedSize

\* Page 3 of 45 rows at page size 20: 5 rows, total 45.
C22_Witness ==
  /\ Listed
  /\ "page" \in DOMAIN query.pagination /\ query.pagination.page = 3
  /\ "pageSize" \in DOMAIN query.pagination /\ query.pagination.pageSize = 20
  /\ Cardinality(DOMAIN tweets) = 45
  /\ query.result.total = 45 /\ Len(query.result.tweets) = 5

(***************************************************************************)
(* Claims about the gold examples.                                         *)
(***************************************************************************)

GoldQueried == query.op = "getGoldExamples"

\* The rows with a gold example, of the type asked for when one is given.
GoldOf(type) ==
  {id \in DOMAIN tweets :
     IF type # Null THEN tweets[id].goldExampleType = type
     ELSE tweets[id].goldExampleType # Null}

\* Each of the rows once.
ExactlyOnce(s, S) == Range(s) = S /\ Len(s) = Cardinality(S)

NewestFirst(s) ==
  \A i, j \in 1..Len(s) : i < j => tweets[s[i]].updatedAt >= tweets[s[j]].updatedAt

\* C24 as stated: getGoldExamples returns the rows with a gold example (of the type,
\* when one is given) as one sequence ordered newest-updated first, with and without
\* the type.
C24_AsStated ==
  GoldQueried =>
    /\ ExactlyOnce(query.result, GoldOf(query.type))
    /\ NewestFirst(query.result)

\* C24: getGoldExamples returns each row with a gold example (of the type, when one
\* is given) once; with a type the sequence is ordered newest-updated first; without
\* one the BAD examples come before the GOOD ones, each type newest-updated first.
C24_GoldExamplesOrdered ==
  GoldQueried =>
    LET s == query.result
    IN /\ ExactlyOnce(s, GoldOf(query.type))
       /\ query.type # Null => NewestFirst(s)
       /\ query.type = Null =>
            \A i, j \in 1..Len(s) : i < j =>
               \/ tweets[s[i]].goldExampleType = "BAD" /\ tweets[s[j]].goldExampleType = "GOOD"
               \/ /\ tweets[s[i]].goldExampleType = tweets[s[j]].goldExampleType
                  /\ tweets[s[i]].updatedAt >= tweets[s[j]].updatedAt

\* Without a type: an older BAD example comes before a newer GOOD one.
C24_Witness ==
  /\ GoldQueried /\ query.type = Null
  /\ Len(query.result) = 2
  /\ tweets[query.result[1]].goldExampleType = "BAD"
  /\ tweets[query.result[2]].goldExampleType = "GOOD"
  /\ tweets[query.result[1]].updatedAt < tweets[query.result[2]].updatedAt

PromptComposed == query.op = "buildPromptWithExamples"

\* The rows whose examples the prompt shows in a section, in the order shown.
ShownIn(section) ==
  LET parts == SelectSeq(query.result, LAMBDA p : p.part = section)
  IN [i \in 1..Len(parts) |-> parts[i].tweet.text.body]

\* The rows shown are s: at most five, each a row of the type, none twice, none
\* older than a row of the type that is left out, and newest first.
MostRecentFive(s, type) ==
  /\ Len(s) = min(5, Cardinality(GoldOf(type)))
  /\ Range(s) \subseteq GoldOf(type)
  /\ Cardinality(Range(s)) = Len(s)
  /\ \A i \in Range(s) : \A e \in GoldOf(type) \ Range(s) :
        tweets[i].updatedAt >= tweets[e].updatedAt
  /\ NewestFirst(s)

\* C25: the composed prompt contains at most 5 GOOD and at most 5 BAD examples, the
\* most recently updated of each type, each type listed most recent first.
C25_PromptTakesMostRecentFive ==
  PromptComposed =>
    /\ MostRecentFive(ShownIn("approved"), "GOOD")
    /\ MostRecentFive(ShownIn("rejected"), "BAD")

\* Six examples of each type with different times: five of each are shown and the
\* oldest of each is left out.
C25_Witness ==
  /\ PromptComposed
  /\ \A type \in {"GOOD", "BAD"} :
       /\ Cardinality(GoldOf(type)) = 6
       /\ \A a, b \in GoldOf(type) : a # b => tweets[a].updatedAt # tweets[b].updatedAt
  /\ Len(ShownIn("approved")) = 5 /\ Len(ShownIn("rejected")) = 5
  /\ \E g \in GoldOf("GOOD") \ Range(ShownIn("approved")) :
       \A o \in GoldOf("GOOD") : tweets[g].updatedAt <= tweets[o].updatedAt
  /\ \E b \in GoldOf("BAD") \ Range(ShownIn("rejected")) :
       \A o \in GoldOf("BAD") : tweets[b].updatedAt <= tweets[o].updatedAt

(***************************************************************************)
(* Claims about the frequency of an author.                                *)
(***************************************************************************)

\* C26: for all non-negative counts the state is fresh exactly when both are zero,
\* else hot exactly when the 7-day count is at least 2, else warm exactly when the
\* 30-day count is at least 3, else healthy; every pair has exactly one state.
C26_FrequencyState ==
  query.op = "computeFrequencyState" =>
    LET p7 == query.postsLast7Days
        p30 == query.postsLast30Days
        state == query.result
        fresh == p7 = 0 /\ p30 = 0
    IN /\ state \in {"fresh", "hot", "warm", "healthy"}
       /\ state = "fresh" <=> fresh
       /\ state = "hot" <=> ~fresh /\ p7 >= 2
       /\ state = "warm" <=> ~fresh /\ p7 < 2 /\ p30 >= 3
       /\ state = "healthy" <=> ~fresh /\ p7 < 2 /\ p30 < 3

\* Both thresholds are met and the 7-day count decides.
C26_Witness ==
  /\ query.op = "computeFrequencyState"
  /\ query.postsLast7Days = 2 /\ query.postsLast30Days = 3
  /\ query.result = "hot"

FrequencyQueried == query.op = "getAuthorFrequency"

IsApproved(row) == row.approved = 1 \/ row.humanDecision = "APPROVED"

\* The day a post counts for: the day it was ingested and judged, or, for a post
\* that the latest write made an approved one, the day of that write.
PostDay(id) ==
  IF last.op # Null /\ last.id = id /\ ~IsApproved(last.before) THEN updatedOrCreated(tweets[id])
  ELSE tweets[id].createdAt

\* The author's posts that are model-approved or human-approved and fall in the
\* `days` days ending now.
ApprovedPostsIn(author, days) ==
  {id \in DOMAIN tweets :
     /\ tweets[id].authorUsername = author
     /\ IsApproved(tweets[id])
     /\ PostDay(id) >= now - days}

\* C27: authorFrequency counts exactly the author's model-approved or human-approved
\* posts that fall in the 7-day and 30-day windows ending now, whatever later writes
\* touched those records, and derives the state from the two counts.
C27_AuthorFrequency ==
  FrequencyQueried =>
    /\ query.result.postsLast7Days = Cardinality(ApprovedPostsIn(query.authorUsername, 7))
    /\ query.result.postsLast30Days = Cardinality(ApprovedPostsIn(query.authorUsername, 30))
    /\ query.result.frequencyState =
         computeFrequencyState(query.result.postsLast7Days, query.result.postsLast30Days)

\* The example of C27 on records no later write has touched: two approved posts in
\* the last 5 days and one from 20 days ago give 2, 3 and hot.
C27_Example ==
  ( /\ FrequencyQueried /\ events = 0
    /\ Cardinality(ApprovedPostsIn(query.authorUsername, 5)) = 2
    /\ Cardinality(ApprovedPostsIn(query.authorUsername, 30)) = 3 )
  => query.result = [postsLast7Days |-> 2, postsLast30Days |-> 3, frequencyState |-> "hot"]

C27_ExampleReached ==
  /\ FrequencyQueried /\ events = 0
  /\ Cardinality(ApprovedPostsIn(query.authorUsername, 5)) = 2
  /\ Cardinality(ApprovedPostsIn(query.authorUsername, 30)) = 3
  /\ \E id \in DOMAIN tweets : tweets[id].createdAt = now - 20

(***************************************************************************)
(* Claims about the migrations.                                            *)
(***************************************************************************)

\* applyMigrations has run again after a run that completed.
AppliedAgain == migration.runs >= 2 /\ ~migration.previous.thrown

\* C28: applying the migrations again after a run that completed executes no
\* migration (appliedCount = 0), performs no write, and leaves the schema and the
\* ledger as the first run left them; in particular from an empty store.
C28_MigrationsIdempotent ==
  AppliedAgain =>
    /\ ~migration.result.thrown
    /\ migration.result.appliedCount = 0
    /\ migration.result.writes = 0
    /\ db = migration.before

\* The full sequence applied twice to an empty store: the first run executed
\* migrations and recorded every file.
C28_Witness ==
  /\ AppliedAgain /\ migration.runs = 2
  /\ migration.start = EmptyDb
  /\ migration.migrationsDir = MigrationFiles \cup {Readme}
  /\ migration.previous.appliedCount = 2
  /\ migration.previous.writes > 0
  /\ db.ledger = MigrationFiles
  /\ "authorUsername" \in db.tweets.columns

(***************************************************************************)
(* Claims about re-ingestion and updatedAt.                                *)
(***************************************************************************)

\* The step is the raw upsert of the batch's next tweet.
SaveRawStep == batch.pc = "ingest" /\ batch'.pc = "ingest" /\ batch'.k = batch.k + 1

Ingested == batch.tweets[batch.k]

\* C29 as stated: once a record has a model decision, re-ingesting its id through
\* saveRaw with a different text does not change the stored text; before judging the
\* re-ingestion overwrites it.
C29_AsStated ==
  [][(SaveRawStep /\ tweets[Ingested.id] # NoRow) =>
       IF hasModelDecision(tweets, Ingested.id)
       THEN tweets'[Ingested.id].text = tweets[Ingested.id].text
       ELSE tweets'[Ingested.id].text = Ingested.text]_vars

\* C29: re-ingesting a record's id through saveRaw overwrites the stored text with
\* the ingested one, before judging and after; on a record with a model decision it
\* changes no quote, approved or score.
C29_ReingestionOverwritesText ==
  [][(SaveRawStep /\ tweets[Ingested.id] # NoRow) =>
       /\ tweets'[Ingested.id].text = Ingested.text
       /\ ModelFields(tweets'[Ingested.id]) = ModelFields(tweets[Ingested.id])]_vars

\* A row with a model decision was ingested again with another text, which it holds
\* now next to the decision it had.
C29_Witness ==
  /\ Rewrote("saveRaw")
  /\ last.before.approved # NullInt
  /\ last.before.text = "a" /\ tweets[last.id].text = "b"
  /\ ModelFields(tweets[last.id]) = ModelFields(last.before)

\* C30: updatedAt is null from a record's creation until its first update, and
\* every write that changes an existing record (re-ingestion by saveRaw that changes
\* text, url or author, save of a decision, updateHumanDecision, setGoldExample)
\* sets updatedAt to the time of that write.
C30_UpdatedAtOnEveryWrite ==
  [][\A id \in Ids :
       /\ (tweets[id] = NoRow /\ tweets'[id] # NoRow) => tweets'[id].updatedAt = NullInt
       /\ (tweets[id] # NoRow /\ tweets'[id] # tweets[id]) => tweets'[id].updatedAt = now]_vars

\* The part of C30 that the code keeps: a row is created with updatedAt null, and
\* every write but the raw upsert sets updatedAt to the time of the write.
C30_ExceptSaveRaw ==
  [][\A id \in Ids :
       /\ (tweets[id] = NoRow /\ tweets'[id] # NoRow) => tweets'[id].updatedAt = NullInt
       /\ (tweets[id] # NoRow /\ tweets'[id] # tweets[id] /\ ~SaveRawStep) =>
            tweets'[id].updatedAt = now]_vars

(***************************************************************************)
(* Claims about the operations of the store on an unknown id.              *)
(***************************************************************************)

\* The step is an operation of the store on an id without a row.
OnUnknownId == events' = events + 1 /\ tweets[query'.id] = NoRow

\* C31: an operation on an id that is not in the store does not throw and creates
\* no record: get returns the absent result, has and hasModelDecision return false,
\* and updateHumanDecision and setGoldExample leave the whole store unchanged.
C31_UnknownIdIsNoError ==
  [][OnUnknownId =>
       /\ ~query'.thrown
       /\ tweets' = tweets
       /\ query'.result = [row |-> NoRow, found |-> FALSE]]_vars

\* On a store that holds a row, updateHumanDecision was called on the id without a
\* row: nothing was thrown and the id has no row.
C31_Witness ==
  /\ query.op = "updateHumanDecision" /\ ~query.thrown
  /\ last.before = NoRow /\ tweets[last.id] = NoRow
  /\ \E id \in Ids : tweets[id] # NoRow
  /\ events = MaxEvents

(***************************************************************************)
(* Claims about the order of list.                                         *)
(***************************************************************************)

SortKey(row, field) ==
  IF field = "score" THEN row.score
  ELSE IF field = "createdAt" THEN row.createdAt
  ELSE row.updatedAt

\* C32: for every sort option (score, createdAt or updatedAt, ascending or
\* descending) passed to list, the returned records are ordered by that field in
\* that direction.
C32_ListSorted ==
  (query.op = "adminTweets" /\ query.sort.orderBy # Null /\ query.sort.orderDir # Null) =>
    LET rows == query.result.tweets
    IN \A i, j \in 1..Len(rows) : i < j =>
         IF query.sort.orderDir = "asc"
         THEN SortKey(tweets[rows[i]], query.sort.orderBy) <= SortKey(tweets[rows[j]], query.sort.orderBy)
         ELSE SortKey(tweets[rows[i]], query.sort.orderBy) >= SortKey(tweets[rows[j]], query.sort.orderBy)

\* What list does with any sort option: the order is the default one, the latest
\* of updatedAt and createdAt first.
C32_DefaultOrderKept ==
  query.op = "adminTweets" =>
    LET rows == query.result.tweets
    IN \A i, j \in 1..Len(rows) : i < j =>
         updatedOrCreated(tweets[rows[i]]) >= updatedOrCreated(tweets[rows[j]])

(***************************************************************************)
(* Claims about the chain of judge calls.                                  *)
(***************************************************************************)

\* s is t with some elements left out, in the order of t.
RECURSIVE IsSubSeq(_, _)
IsSubSeq(s, t) ==
  IF s = <<>> THEN TRUE
  ELSE IF t = <<>> THEN FALSE
  ELSE IF Head(s) = Head(t) THEN IsSubSeq(Tail(s), Tail(t))
  ELSE IsSubSeq(s, Tail(t))

FirstCallStarts == batch.pc = "ingest" /\ batch'.pc = "judge"

NextCallStarts == batch.pc = "judge" /\ batch'.pc = "judge" /\ batch'.i # batch.i

\* C33: the judge calls of a batch are issued one at a time in batch order: a call
\* starts only in the step in which the previous one returned or failed, for the
\* next tweet to process. The first call carries the handle persisted in the
\* config (none on a fresh chain); each later call carries the handle returned by
\* the latest earlier call of the run that returned a result, whatever the config
\* holds by then; the handle does not change while a call is under way.
C33_CallsChained ==
  [][/\ FirstCallStarts =>
          /\ batch'.i = 1 /\ batch'.call = callStart("askTweetDecision")
          /\ IsSubSeq(batch'.toProcess, batch.tweets)
          /\ batch'.previousResponseId = getConfig(config, RESPONSE_ID_KEY)
     /\ NextCallStarts =>
          /\ batch'.i = batch.i + 1 /\ batch'.toProcess = batch.toProcess
          /\ batch'.call = callStart("askTweetDecision")
          /\ last'.outcome.kind = "result" \/ IsMalformed(last'.outcome)
          /\ batch'.previousResponseId =
               IF last'.outcome.kind = "result" THEN last'.outcome.responseId
               ELSE batch.previousResponseId
     /\ (batch.pc = "judge" /\ batch'.pc = "judge" /\ batch'.i = batch.i) =>
          /\ batch'.previousResponseId = batch.previousResponseId
          /\ batch'.toProcess = batch.toProcess
     /\ batch'.call # IdleCall => batch'.pc = "judge" /\ batch'.i \in 1..Len(batch'.toProcess)]_vars

\* The second call of a run is under way with the handle that the first call
\* returned, and the config holds another handle by now.
C33_Witness ==
  /\ batch.pc = "judge" /\ batch.i = 2 /\ batch.call.pc = "attempt"
  /\ batch.previousResponseId # NullInt
  /\ getConfig(config, RESPONSE_ID_KEY) # batch.previousResponseId

(***************************************************************************)
(* Claims about the examples of a batch run.                               *)
(***************************************************************************)

\* The gold examples that the store holds now.
ExamplesInStore ==
  { [tweetText |-> tweets[id].text, response |-> tweets[id].quote,
     correction |-> tweets[id].goldExampleCorrection, type |-> tweets[id].goldExampleType] :
    id \in {r \in Rows : tweets[r].goldExampleType # Null} }

\* C34: the gold examples are read once per batch run, before its first judge call,
\* as the store holds them then; every judge call of the run is given that set,
\* also when a gold example is set, changed or cleared while the run is judging.
C34_ExamplesReadOnce ==
  [][/\ FirstCallStarts => batch'.examples = ExamplesInStore
     /\ (batch.pc = "judge" /\ batch'.pc \in {"judge", "done"}) =>
          batch'.examples = batch.examples]_vars

\* The second call of a run is under way with the examples read at the start of
\* the run, and the store holds other gold examples by now.
C34_Witness ==
  /\ batch.pc = "judge" /\ batch.i = 2 /\ batch.call.pc = "attempt"
  /\ batch.examples # {}
  /\ batch.examples # ExamplesInStore

\* The first run of applyMigrations, with every migration in the directory, on a
\* store that has a tweets table and an empty ledger: the table holds the effect
\* of the first migration at least, and approved and quote are as they were
\* before the third migration or as they are after it.
OnPriorSchema ==
  /\ migration.runs = 1
  /\ migration.start.tweets.exists
  /\ migration.start.tweets.approvedNotNull = ~migration.start.tweets.quoteDefault
  /\ migration.migrationsDir = MigrationFiles \cup {Readme}

\* The migrations of the directory whose effect the start table holds.
EffectPresent ==
  {file \in migration.migrationsDir \cap MigrationFiles :
     isMigrationAlreadyAppliedBySchema(migration.start, file)}

\* The schema that the migrations of the directory give an empty store.
LatestSchema == applyMigrations(EmptyDb, migration.migrationsDir).db.tweets

C35_Completes == OnPriorSchema => ~migration.result.thrown

C35_Recorded == OnPriorSchema => EffectPresent \subseteq db.ledger

C35_KeepsValues ==
  OnPriorSchema => /\ migration.start.tweets.columns \subseteq db.tweets.columns
                   /\ migration.start.tweets.stored \subseteq db.tweets.stored

\* The columns that no migration in the sources adds to a table that exists.
AddedElsewhere == {"updatedAt", "goldExampleCorrection", "humanDecision"}

C35_EndsAtLatest ==
  OnPriorSchema => /\ LatestSchema.columns \ AddedElsewhere \subseteq db.tweets.columns
                   /\ db.tweets.approvedNotNull = LatestSchema.approvedNotNull
                   /\ db.tweets.quoteDefault = LatestSchema.quoteDefault

\* C35: on a store whose tweets table holds the effect of a migration that the
\* ledger does not list, applyMigrations records that migration, completes
\* without an error, keeps every column and every stored value of the table, and
\* ends at the latest schema.
C35_PartialSchemaSafe ==
  /\ C35_Completes
  /\ C35_Recorded
  /\ C35_KeepsValues
  /\ C35_EndsAtLatest

\* A store on which every migration but 003 has had its effect: approved is NOT
\* NULL still, and the rows hold review times and gold examples.
C35_Example ==
  /\ migration.runs = 0
  /\ migration.migrationsDir = MigrationFiles \cup {Readme}
  /\ db.tweets.approvedNotNull /\ ~db.tweets.quoteDefault
  /\ db.tweets.columns = TweetsTable.columns \cup {"authorUsername"}

\* From that store the run executes 003 and the authorUsername migration and
\* completes; the rows hold the values of the columns that 003 copies, and no
\* review time, gold example or author name.
C35_ExampleReached ==
  /\ OnPriorSchema
  /\ migration.start.tweets.approvedNotNull /\ ~migration.start.tweets.quoteDefault
  /\ migration.start.tweets.columns = TweetsTable.columns \cup {"authorUsername"}
  /\ ~migration.result.thrown
  /\ migration.result.appliedCount = 2
  /\ db.ledger = MigrationFiles
  /\ db.tweets.stored = Copied003

(***************************************************************************)
(* Claims about the length of a batch run.                                 *)
(***************************************************************************)

\* The number of times i occurs in the sequence s.
Occurrences(s, i) == Cardinality({k \in 1..Len(s) : s[k] = i})

\* The run has gone through its loop and returned.
CompletedNormally ==
  batch.pc = "done" /\ batch.exitCode = 0 /\ Len(batch.toProcess) > 0

\* No run makes more than 3 oracle calls for each tweet to process.
CallsBounded ==
  batch.pc \in {"judge", "done"} => tally.calls <= 3 * Len(batch.toProcess)

\* At normal completion each tweet to process was judged, and has a decision in the
\* store, or skipped after a malformed response, and has none: one or the other, once.
EachOnce ==
  CompletedNormally =>
    \A i \in 1..Len(batch.toProcess) :
      /\ Occurrences(tally.judged, i) + Occurrences(tally.skipped, i) = 1
      /\ Occurrences(tally.judged, i) = 1 => hasModelDecision(tweets, batch.toProcess[i].id)
      /\ Occurrences(tally.skipped, i) = 1 => ~hasModelDecision(tweets, batch.toProcess[i].id)

\* C36: provided every oracle call returns or fails, a batch run over n tweets to
\* process ends, after no more than 3*n oracle calls, and at normal completion
\* each of the n tweets was either judged (a decision was saved) or skipped as
\* malformed (left without a decision), exactly once.
C36_RunTerminates ==
  /\ [](CallsBounded /\ EachOnce)
  /\ (batch.pc = "judge") ~> (batch.pc = "done")

\* A run over two tweets has completed: the first was judged at the third attempt,
\* the second skipped as malformed.
C36_Witness ==
  /\ CompletedNormally
  /\ Len(batch.toProcess) = 2
  /\ tally.judged = <<1>> /\ tally.skipped = <<2>>
  /\ tally.calls = 4

(***************************************************************************)
(* Claims about judgments that overlap.                                    *)
(***************************************************************************)

\* The batch run and a process request are both waiting for the judge's answer
\* on the tweet id.
Overlap(id) ==
  /\ batch.pc = "judge" /\ batch.call.pc = "attempt"
  /\ batch.toProcess[batch.i].id = id
  /\ req.pc = "judge" /\ req.kind = "process" /\ req.id = id

\* The step saves the decision of a judgment that was begun on a tweet without a
\* model decision: the batch's, or a process request's.
JudgmentSaved(id) ==
  /\ Saved(id)
  /\ \/ batch.pc = "judge" /\ batch' # batch
     \/ req.pc = "judge" /\ req.kind = "process" /\ req' # req

\* C37: a tweet without a model decision is judged at most once also when
\* judgments overlap: of a process request and a batch run that wait for the judge
\* on the same tweet at most one saves a decision, so no judgment is saved over a
\* model decision that is in the store.
C37_JudgedAtMostOnce ==
  [][\A id \in Ids : JudgmentSaved(id) => ModelState(id) = Null]_vars

\* The batch run and a process request wait for the judge on the same tweet, which
\* has no model decision.
C37_OverlapReached == \E id \in Ids : Overlap(id) /\ ModelState(id) = Null

\* The second of two overlapping judgments has rejected a tweet that the first
\* had approved.
C37_ApprovalOverwritten ==
  /\ last.op = "save" /\ last.status = 200
  /\ approvedOf(last.before) = "true"
  /\ ModelState(last.id) = "false"

(***************************************************************************)
(* Claims about the chain after a malformed response.                      *)
(***************************************************************************)

\* C38: a judge call of the batch that ends in a MalformedResponseError does not
\* advance the chain: the step leaves the handle in the config and the handle that
\* the loop holds as they were, so that the call for the next tweet is chained to
\* the handle the malformed call was chained to, and the id of the malformed
\* response is not in the config.
C38_MalformedKeepsChain ==
  [][(BatchStep /\ IsMalformed(last'.outcome)) =>
        /\ config' = config
        /\ respSeq' # respSeq => getConfig(config', RESPONSE_ID_KEY) # respSeq'
        /\ batch'.previousResponseId = batch.previousResponseId
        /\ batch'.pc = "judge" =>
              /\ batch'.call = callStart("askTweetDecision")
              /\ batch'.i = batch.i + 1]_vars

\* The call for the first tweet, chained to the handle that an earlier run left in
\* the store, ended malformed; the call for the second tweet is under way with
\* that handle, which is the one in the store.
C38_Witness ==
  /\ IsMalformed(last.outcome) /\ last.status = 0
  /\ batch.pc = "judge" /\ batch.i = 2 /\ batch.call.pc = "attempt"
  /\ batch.previousResponseId # NullInt
  /\ getConfig(config, RESPONSE_ID_KEY) = batch.previousResponseId
  /\ respSeq > batch.previousResponseId

(***************************************************************************)
(* Claims about a migration that fails.                                    *)
(***************************************************************************)

Executed(run) == {run.executed[k].file : k \in 1..Len(run.executed)}

\* The error is one that applyMigration does not skip.
Fatal(error) == error \notin {Null, "duplicate column name", "already exists"}

\* C39: when the execution of a migration fails with an error other than a
\* duplicate column or a table that exists already, applyMigrations throws, the
\* migration is not in the ledger and no later migration is executed, and the next
\* run executes the same migration first; the migrations of a run are executed in
\* ascending order of their file names, and no migration that the ledger lists is
\* executed.
C39_FailedMigrationStops ==
  migration.runs >= 1 =>
    LET run == migration.result
        n == Len(run.executed)
    IN /\ \A k \in 1..n :
            Fatal(run.executed[k].error) =>
              /\ run.thrown
              /\ k = n
              /\ run.executed[k].file \notin db.ledger
              /\ \A file \in migration.migrationsDir \cap MigrationFiles :
                    fileOrder(file) > fileOrder(run.executed[k].file) => file \notin db.ledger
       /\ run.thrown => n >= 1 /\ Fatal(run.executed[n].error)
       /\ (migration.runs >= 2 /\ migration.previous.thrown) =>
            /\ n >= 1
            /\ run.executed[1].file =
                 migration.previous.executed[Len(migration.previous.executed)].file
       /\ \A j, k \in 1..n :
            j < k => fileOrder(run.executed[j].file) < fileOrder(run.executed[k].file)
       /\ Executed(run) \cap migration.before.ledger = {}

\* The first run executed the second migration and failed in the third; the next
\* run has executed the third again, first, and has failed in it again; the third
\* and the later migrations are not in the ledger.
C39_Witness ==
  /\ migration.runs = 2
  /\ migration.previous.thrown /\ migration.result.thrown
  /\ Len(migration.previous.executed) = 2
  /\ migration.previous.executed[1].file = File002
  /\ migration.previous.executed[2] = [file |-> File003, error |-> "no such column"]
  /\ migration.result.executed = <<[file |-> File003, error |-> "no such column"]>>
  /\ db.ledger = {File001, File002}
  /\ File005 \in migration.migrationsDir

====
